---- MODULE Spec2Model ----
(***************************************************************************)
(* A model of the Kisekauto code format: Subcode, Component, Chunk and     *)
(* Code with parsing, serialization, merge and version migration.          *)
(*                                                                         *)
(* A text is a sequence of one-character strings, so that parsing and      *)
(* formatting are computed character by character as the Python code does. *)
(* A Python dict is a sequence of [key, val] records in insertion order.   *)
(* An exception is a record field exc that is "" when nothing was raised.  *)
(***************************************************************************)
EXTENDS Integers, Sequences, FiniteSets, TLC

VARIABLES
    heap,    \* the Subcode instances: object identity -> Subcode value
    codes,   \* the program's Code variables: name -> Code whose subcodes are heap references
    text,    \* the text last given to or produced by parse / serialize
    op,      \* the last operation performed, with its arguments
    exc,     \* the exception the last operation raised, "" when none
    pre,     \* the heap and the Code variables as they were before the last operation
    hist,    \* the Codes parsed so far (SpecRoundTrip), the calls made so far (Spec)
    steps,   \* the number of operations performed
    mixer    \* the MixerProgram: its destdir and its Options, each a list of Sources

vars == <<heap, codes, text, op, exc, pre, hist, steps, mixer>>

----------------------------------------------------------------------------
(* Bounds of the model. *)

\* the number of operations a run of Spec performs
MaxSteps == 2

\* the number of '*'-separated model segments of an input text
MaxSegments == 2

\* the number of parses of the round-trip pipeline: parse, serialize, parse, ...
MaxGenerations == 3

----------------------------------------------------------------------------------------------------------------------------------------------------
(* Python string and list primitives.                                       *)
(* A value that is used more than once is bound by a set constructor,       *)
(* The({ e(x) : x \in {v} }), so that it is computed once.                  *)

\* the element of a one-element set
The(S) == CHOOSE x \in S : TRUE

Digits == <<"0", "1", "2", "3", "4", "5", "6", "7", "8", "9">>

isdigit(c) == \E i \in 1..10 : Digits[i] = c

DigitVal(c) == (CHOOSE i \in 1..10 : Digits[i] = c) - 1

\* the index of the first occurrence of the non-empty text d in s, 0 when there is none
Find(s, d) ==
    The({ IF hits = {} THEN 0 ELSE CHOOSE i \in hits : \A j \in hits : i <= j :
          hits \in { {i \in 1..(Len(s) - Len(d) + 1) : SubSeq(s, i, i + Len(d) - 1) = d} } })

\* str.split(d)
RECURSIVE Split(_, _)
Split(s, d) ==
    The({ IF i = 0 THEN <<s>>
          ELSE <<SubSeq(s, 1, i - 1)>> \o Split(SubSeq(s, i + Len(d), Len(s)), d) :
          i \in {Find(s, d)} })

\* d.join(parts)
RECURSIVE Join(_, _)
Join(parts, d) ==
    IF parts = <<>> THEN <<>>
    ELSE IF Len(parts) = 1 THEN parts[1]
    ELSE parts[1] \o d \o Join(Tail(parts), d)

\* filter(lambda x: x != '', parts)
NonEmpty(parts) == SelectSeq(parts, LAMBDA x : x # <<>>)

\* the value of a text of decimal digits
RECURSIVE DigitsVal(_)
DigitsVal(s) ==
    IF s = <<>> THEN 0
    ELSE 10 * DigitsVal(SubSeq(s, 1, Len(s) - 1)) + DigitVal(s[Len(s)])

\* int(s): an optional sign and at least one decimal digit, ValueError otherwise
int(s) ==
    The({ IF body = <<>> \/ \E i \in 1..Len(body) : ~isdigit(body[i])
          THEN [exc |-> "ValueError", val |-> 0]
          ELSE [exc |-> "", val |-> sign * DigitsVal(body)] :
          body \in {IF s # <<>> /\ s[1] \in {"-", "+"} THEN Tail(s) ELSE s},
          sign \in {IF s # <<>> /\ s[1] = "-" THEN 0 - 1 ELSE 1} })

RECURSIVE NatStr(_)
NatStr(n) ==
    IF n < 10 THEN <<Digits[n + 1]>> ELSE NatStr(n \div 10) \o <<Digits[(n % 10) + 1]>>

\* str(n) of an integer
str(n) == (IF n < 0 THEN <<"-">> ELSE <<>>) \o NatStr(IF n < 0 THEN 0 - n ELSE n)

\* '{:01}'.format(n) and '{:02}'.format(n)
Format(width, n) ==
    (IF width = 2 /\ n >= 0 /\ n < 10 THEN <<"0">> ELSE <<>>) \o str(n)

\* dict operations on a sequence of [key, val] records
DictHas(d, k) == \E i \in 1..Len(d) : d[i].key = k

DictGet(d, k) == d[CHOOSE i \in 1..Len(d) : d[i].key = k].val

DictPut(d, k, v) ==
    IF \E i \in 1..Len(d) : d[i].key = k
    THEN [i \in 1..Len(d) |-> IF d[i].key = k THEN [key |-> k, val |-> v] ELSE d[i]]
    ELSE Append(d, [key |-> k, val |-> v])

----
(* Consts, and the registries the parser consults. *)

singleDigits == {<<"u">>}
sceneDelim == <<"#", "/", "]">>
assetDelim == <<"/", "#", "]">>

\* the number of model slots of a Code
NumSlots == 9

\* subcodes.json: the field layout of each subcode kind
SubcodeTypes ==
    [ Position |-> [tag |-> <<"a", "a">>, names |-> <<"x", "y">>,
                    poses |-> {"x", "y"}, colors |-> {}, exprs |-> {},
                    clothes |-> {}, body |-> {}],
      Head     |-> [tag |-> <<"h", "d">>,
                    names |-> <<"Tilt", "OffsetX", "OffsetY", "Rotation">>,
                    poses |-> {"Tilt"}, colors |-> {}, exprs |-> {"OffsetX", "OffsetY"},
                    clothes |-> {}, body |-> {"Rotation"}],
      Shoe     |-> [tag |-> <<"j", "d">>,
                    names |-> <<"Type", "Color1", "Color2", "Color3",
                                "Top", "TopColor1", "TopColor2">>,
                    poses |-> {},
                    colors |-> {"Color1", "Color2", "Color3", "TopColor1", "TopColor2"},
                    exprs |-> {}, clothes |-> {"Type", "Top"}, body |-> {}],
      Mark     |-> [tag |-> <<"m">>, names |-> <<"p", "q">>,
                    poses |-> {}, colors |-> {"q"}, exprs |-> {},
                    clothes |-> {}, body |-> {"p"}],
      Ribbon   |-> [tag |-> <<"u">>, names |-> <<"r">>,
                    poses |-> {}, colors |-> {}, exprs |-> {},
                    clothes |-> {"r"}, body |-> {}] ]

\* components.json: the component kinds, each tag with its rename and subcode kind
ComponentTypes ==
    << [name |-> "Pose",
        singles |-> << [key |-> <<"a", "a">>, val |-> [rename |-> "position", type |-> "Position"]] >>,
        arrays  |-> << >>],
       [name |-> "Expression",
        singles |-> << [key |-> <<"h", "d">>, val |-> [rename |-> "head", type |-> "Head"]] >>,
        arrays  |-> << >>],
       [name |-> "Clothing",
        singles |-> << [key |-> <<"j", "d">>, val |-> [rename |-> "leftshoe", type |-> "Shoe"]],
                       [key |-> <<"j", "e">>, val |-> [rename |-> "rightshoe", type |-> "Shoe"]] >>,
        arrays  |-> << [key |-> <<"u">>, val |-> [rename |-> "ribbon", type |-> "Ribbon"]] >>],
       [name |-> "Appearance",
        singles |-> << >>,
        arrays  |-> << [key |-> <<"m">>, val |-> [rename |-> "mark", type |-> "Mark"]] >>] >>

ComponentNames == {ComponentTypes[i].name : i \in 1..Len(ComponentTypes)}

ComponentSpec(name) ==
    ComponentTypes[CHOOSE i \in 1..Len(ComponentTypes) : ComponentTypes[i].name = name]

\* ComponentType.__contains__
ComponentTypeContains(name, tag) ==
    \E spec \in {ComponentSpec(name)} :
        \/ \E i \in 1..Len(spec.singles) : spec.singles[i].key = tag
        \/ \E i \in 1..Len(spec.arrays) : spec.arrays[i].key = tag

\* ComponentType.classGet: by name, else by a tag the component owns, else KeyError
ComponentTypeClassGet(key) ==
    The({ IF owners = {} THEN [exc |-> "KeyError", name |-> ""]
          ELSE [exc |-> "", name |-> CHOOSE n \in owners : TRUE] :
          owners \in { {n \in ComponentNames : ComponentTypeContains(n, key)} } })

\* ComponentType.__getitem__: (is array, rename, subcode kind) of a tag the component owns
ComponentTypeGetItem(name, tag) ==
    The({ IF DictHas(spec.singles, tag)
          THEN The({ [array |-> FALSE, rename |-> e.rename, type |-> e.type] :
                     e \in {DictGet(spec.singles, tag)} })
          ELSE The({ [array |-> TRUE, rename |-> e.rename, type |-> e.type] :
                     e \in {DictGet(spec.arrays, tag)} }) :
          spec \in {ComponentSpec(name)} })

----------------------------------------------------------------------------
(* Subcode: a tagged list of string fields. *)

\* Subcode.__init__, with pieces given
Subcode(type, pieces, index, tag) ==
    [type |-> type, pieces |-> pieces, index |-> index, tag |-> tag]

\* SubcodeType.__getitem__ with a name: the position of the name (0-based), -1 when absent
SubcodeTypeIndex(type, name) ==
    The({ IF \E i \in 1..Len(names) : names[i] = name
          THEN (CHOOSE i \in 1..Len(names) : names[i] = name) - 1
          ELSE 0 - 1 :
          names \in {SubcodeTypes[type].names} })

\* SubcodeType.__getitem__ with an integer: the name at a position, '' out of range
SubcodeTypeName(type, i) ==
    IF i < 0 \/ i >= Len(SubcodeTypes[type].names) THEN "" ELSE SubcodeTypes[type].names[i + 1]

\* Subcode.getPrefix
getPrefix(sub) ==
    sub.tag \o (IF sub.index >= 0
                THEN Format(IF sub.tag \in singleDigits THEN 1 ELSE 2, sub.index)
                ELSE <<>>)

\* Subcode.__str__: the fields are left out when the first piece is ''
SubcodeStr(sub) ==
    getPrefix(sub) \o
        Join(SelectSeq(sub.pieces, LAMBDA p : sub.pieces[1] # <<>>), <<".">>)

\* Subcode.__len__
SubcodeLen(sub) ==
    IF Len(sub.pieces) > 1 /\ sub.pieces[1] = <<>> THEN 0 ELSE Len(sub.pieces)

\* Subcode.__getitem__ with a field name: a Python list index, a negative position
\* counted from the end, '0' on IndexError
SubcodeGetItem(sub, key) ==
    The({ IF i >= n \/ i < 0 - n THEN <<"0">>
          ELSE IF i < 0 THEN sub.pieces[n + i + 1]
          ELSE sub.pieces[i + 1] :
          i \in {SubcodeTypeIndex(sub.type, key)}, n \in {Len(sub.pieces)} })

\* Subcode.__setitem__ with a field name as it would be if the list were extended
\* with '' instead of '0'
SubcodeSetItemPadEmpty(sub, key, value) ==
    The({ IF i = 0 - 1 THEN sub
          ELSE [sub EXCEPT !.pieces =
                   [k \in 1..(IF i >= n THEN i + 1 ELSE n) |->
                       IF k = i + 1 THEN value
                       ELSE IF k <= n THEN sub.pieces[k]
                       ELSE <<>>]] :
          i \in {SubcodeTypeIndex(sub.type, key)}, n \in {Len(sub.pieces)} })

\* Subcode.__setitem__ with a field name
SubcodeSetItem(sub, key, value) ==
    The({ IF i = 0 - 1 THEN sub
          ELSE [sub EXCEPT !.pieces =
                   [k \in 1..(IF i >= n THEN i + 1 ELSE n) |->
                       IF k = i + 1 THEN value
                       ELSE IF k <= n THEN sub.pieces[k]
                       ELSE <<"0">>]] :
          i \in {SubcodeTypeIndex(sub.type, key)}, n \in {Len(sub.pieces)} })

\* Subcode.__setattr__: a name of the subcode kind is a field, anything else an attribute
SubcodeSetAttr(sub, key, value) ==
    IF \E i \in 1..Len(SubcodeTypes[sub.type].names) : SubcodeTypes[sub.type].names[i] = key
    THEN SubcodeSetItem(sub, key, value)
    ELSE sub

\* Subcode.__getitem__ with an integer: '0' below 0 and from the number of pieces on
SubcodeGetIndex(sub, key) ==
    IF key < 0 \/ key >= Len(sub.pieces) THEN <<"0">> ELSE sub.pieces[key + 1]

\* Subcode.__setitem__ with an integer: [exc, sub]. -1 returns at once; a position
\* from the end on pads with '0'; any other negative position is the list's
\* position from the end and an IndexError before the start
SubcodeSetIndex(sub, key, value) ==
    The({ IF key = 0 - 1 THEN [exc |-> "", sub |-> sub]
          ELSE IF key < 0 - n THEN [exc |-> "IndexError", sub |-> sub]
          ELSE [exc |-> "",
                sub |-> [sub EXCEPT !.pieces =
                           [k \in 1..(IF key >= n THEN key + 1 ELSE n) |->
                               IF k = (IF key < 0 THEN n + key + 1 ELSE key + 1) THEN value
                               ELSE IF k <= n THEN sub.pieces[k]
                               ELSE <<"0">>]]] :
          n \in {Len(sub.pieces)} })

\* str(value) of the value given to Subcode.__setitem__: a str or an int
PyStr(value) == IF value.isint THEN str(value.n) ELSE value.s

\* the subcode kind and tag that Subcode.fromString finds for a prefix: [exc, sub]
SubcodeOfPrefix(prefix, data, index) ==
    The({ IF ctype.exc # "" THEN [exc |-> ctype.exc, none |-> FALSE, sub |-> Subcode("", <<>>, 0 - 1, <<>>)]
          ELSE [exc |-> "", none |-> FALSE,
                sub |-> Subcode(ComponentTypeGetItem(ctype.name, prefix).type,
                                Split(data, <<".">>), index, prefix)] :
          ctype \in {ComponentTypeClassGet(prefix)} })

\* Subcode.fromString: [exc, none, sub]; none is Python's None for a token of length <= 1
SubcodeFromString(src) ==
    IF Len(src) <= 1 THEN [exc |-> "", none |-> TRUE, sub |-> Subcode("", <<>>, 0 - 1, <<>>)]
    ELSE IF ~isdigit(src[2]) THEN SubcodeOfPrefix(SubSeq(src, 1, 2), SubSeq(src, 3, Len(src)), 0 - 1)
    ELSE The({ The({ IF index.exc # ""
                     THEN [exc |-> index.exc, none |-> FALSE, sub |-> Subcode("", <<>>, 0 - 1, <<>>)]
                     ELSE SubcodeOfPrefix(<<src[1]>>,
                              SubSeq(src, IF short THEN 3 ELSE 4, Len(src)), index.val) :
                     index \in {int(SubSeq(src, 2, IF short THEN 2 ELSE 3))} }) :
               short \in {(<<src[1]>> \in singleDigits) \/ Len(src) = 2} })

\* the override test of Subcode.merge for the field at position i (0-based); a mode is
\* the list mode.split('.'), so that mode == 'all' is mode = <<"all">>
MergeOverride(type, i, mode) ==
    \E name \in {SubcodeTypeName(type, i)}, modes \in { {mode[k] : k \in 1..Len(mode)} },
       t \in {SubcodeTypes[type]} :
        \/ mode = <<"all">>
        \/ "color" \in modes /\ name \in t.colors
        \/ "pose" \in modes /\ name \in t.poses
        \/ "expr" \in modes /\ name \in t.exprs
        \/ "clothes" \in modes /\ name \in t.clothes
        \/ "body" \in modes /\ name \in t.body

\* Subcode.merge as it would be if an empty piece of other left the field of self
SubcodeMergeKeepingFields(self, other, mode) ==
    IF self.type # other.type THEN [exc |-> "ValueError", sub |-> self]
    ELSE IF mode = <<"all">> /\ SubcodeLen(other) = 0
    THEN [exc |-> "", sub |-> [self EXCEPT !.pieces = <<>>]]
    ELSE The({ [exc |-> IF \E i \in over : i > Len(self.pieces) THEN "IndexError" ELSE "",
                sub |-> [self EXCEPT !.pieces =
                            [i \in 1..Len(self.pieces) |->
                                IF i \in over THEN other.pieces[i] ELSE self.pieces[i]]]] :
               over \in { {i \in 1..Len(other.pieces) :
                              other.pieces[i] # <<>> /\ MergeOverride(self.type, i - 1, mode)} } })

\* Subcode.merge as it would be if the kinds were compared after the test for a
\* fully absent other
SubcodeMergeLateTypeCheck(self, other, mode) ==
    IF mode = <<"all">> /\ SubcodeLen(other) = 0
    THEN [exc |-> "", sub |-> [self EXCEPT !.pieces = <<>>]]
    ELSE IF self.type # other.type THEN [exc |-> "ValueError", sub |-> self]
    ELSE The({ [exc |-> IF \E i \in over : i > Len(self.pieces) THEN "IndexError" ELSE "",
                sub |-> [self EXCEPT !.pieces =
                            [i \in 1..Len(self.pieces) |->
                                IF i \in over THEN other.pieces[i] ELSE self.pieces[i]]]] :
               over \in { {i \in 1..Len(other.pieces) : MergeOverride(self.type, i - 1, mode)} } })

\* Subcode.merge: [exc, sub]. The loop assigns self.pieces[i] for each piece of other
\* in turn, so an IndexError at the first position self does not have comes after
\* the earlier positions were assigned.
SubcodeMerge(self, other, mode) ==
    IF self.type # other.type THEN [exc |-> "ValueError", sub |-> self]
    ELSE IF mode = <<"all">> /\ SubcodeLen(other) = 0
    THEN [exc |-> "", sub |-> [self EXCEPT !.pieces = <<>>]]
    ELSE The({ [exc |-> IF \E i \in over : i > Len(self.pieces) THEN "IndexError" ELSE "",
                sub |-> [self EXCEPT !.pieces =
                            [i \in 1..Len(self.pieces) |->
                                IF i \in over THEN other.pieces[i] ELSE self.pieces[i]]]] :
               over \in { {i \in 1..Len(other.pieces) : MergeOverride(self.type, i - 1, mode)} } })

\* Subcode.copy
SubcodeCopy(sub) == Subcode(sub.type, sub.pieces, sub.index, sub.tag)

\* Subcode.clear
SubcodeClear(sub) == [sub EXCEPT !.pieces = <<>>]

\* Subcode.__init__ without pieces: one '' for each field name of the kind
SubcodeNew(type, index, tag) ==
    Subcode(type, [i \in 1..Len(SubcodeTypes[type].names) |-> <<>>], index, tag)

----------------------------------------------------------------------------
(* Component, Chunk and Code as values: a subcode slot holds the Subcode    *)
(* itself.  Parsing builds such values.                                     *)

\* Component.__init__ with no data
Component(spec) == [spec |-> spec, subcodes |-> <<>>]

\* the key Component.add stores a subcode under
ComponentKey(sub) ==
    sub.tag \o (IF sub.index # 0 - 1
                THEN Format(IF sub.tag \in singleDigits THEN 1 ELSE 2, sub.index)
                ELSE <<>>)

\* Component.add with a Subcode: store or overwrite by key
ComponentAdd(component, sub) ==
    [component EXCEPT !.subcodes = DictPut(component.subcodes, ComponentKey(sub), sub)]

\* Component.__str__
ComponentStr(component) ==
    Join([i \in 1..Len(component.subcodes) |-> SubcodeStr(component.subcodes[i].val)], <<"_">>)

\* Chunk.__init__ with no data, and Python's None in a chunk slot
EmptyChunk == [isNone |-> FALSE, components |-> <<>>, assets |-> <<>>]
NoneChunk == [isNone |-> TRUE, components |-> <<>>, assets |-> <<>>]

\* the body of the loop of Chunk.parse, once the token is parsed: the component of
\* the tag is created on first use and the subcode added to it
ChunkRoute(components, sub) ==
    The({ The({ DictPut(have, ctype, ComponentAdd(DictGet(have, ctype), sub)) :
                have \in {IF DictHas(components, ctype) THEN components
                          ELSE DictPut(components, ctype, Component(ctype))} }) :
          ctype \in {ComponentTypeClassGet(sub.tag).name} })

\* the loop of Chunk.parse over the first n subcode tokens: [exc, components]
RECURSIVE ChunkParseTokens(_, _)
ChunkParseTokens(srcs, n) ==
    IF n = 0 THEN [exc |-> "", components |-> <<>>]
    ELSE The({ IF prev.exc # "" THEN prev
               ELSE The({ IF parsed.exc # "" THEN [exc |-> parsed.exc, components |-> <<>>]
                          ELSE IF parsed.none
                          THEN [exc |-> "AttributeError", components |-> <<>>]
                          ELSE [exc |-> "",
                                components |-> ChunkRoute(prev.components, parsed.sub)] :
                          parsed \in {SubcodeFromString(srcs[n])} }) :
               prev \in {ChunkParseTokens(srcs, n - 1)} })

\* Chunk.parse, were a token whose tag nobody owns skipped instead of raising
ChunkParseSkippingUnknown(data) ==
    The({ The({ [exc |-> parsed.exc,
                 chunk |-> [isNone |-> FALSE, components |-> parsed.components,
                            assets |-> Tail(pieces)]] :
                parsed \in {The({ ChunkParseTokens(srcs, Len(srcs)) :
                                  srcs \in {SelectSeq(NonEmpty(Split(pieces[1], <<"_">>)),
                                               LAMBDA src : SubcodeFromString(src).exc # "KeyError")} })} }) :
          pieces \in {Split(data, assetDelim)} })

\* Chunk.parse on a new Chunk: [exc, chunk]
ChunkParse(data) ==
    The({ The({ [exc |-> parsed.exc,
                 chunk |-> [isNone |-> FALSE, components |-> parsed.components,
                            assets |-> Tail(pieces)]] :
                parsed \in {The({ ChunkParseTokens(srcs, Len(srcs)) :
                                  srcs \in {NonEmpty(Split(pieces[1], <<"_">>))} })} }) :
          pieces \in {Split(data, assetDelim)} })

\* Chunk.__str__
ChunkStr(chunk) ==
    Join(NonEmpty([i \in 1..Len(chunk.components) |-> ComponentStr(chunk.components[i].val)]),
         <<"_">>)
    \o (IF chunk.assets # <<>> THEN assetDelim \o Join(chunk.assets, assetDelim) ELSE <<>>)

\* Code.__init__ with no data
EmptyCode == [version |-> 0 - 1, models |-> [i \in 1..NumSlots |-> NoneChunk],
              scene |-> NoneChunk]

\* the loop of Code.parse over the first n model segments: [exc, models]
RECURSIVE CodeParseModels(_, _)
CodeParseModels(segs, n) ==
    IF n = 0 THEN [exc |-> "", models |-> [i \in 1..NumSlots |-> NoneChunk]]
    ELSE The({ IF prev.exc # "" \/ segs[n] = <<"0">> THEN prev
               ELSE The({ IF parsed.exc # "" THEN [exc |-> parsed.exc, models |-> prev.models]
                          ELSE IF n > NumSlots
                          THEN [exc |-> "IndexError", models |-> prev.models]
                          ELSE [exc |-> "",
                                models |-> [prev.models EXCEPT ![n] = parsed.chunk]] :
                          parsed \in {ChunkParse(segs[n])} }) :
               prev \in {CodeParseModels(segs, n - 1)} })

\* Code.parse after the version: rest is the text that follows the '**'
CodeParseRest(version, rest0) ==
    IF rest0 = <<>> THEN [exc |-> "IndexError", code |-> EmptyCode]
    ELSE The({ The({ IF models.exc # "" THEN [exc |-> models.exc, code |-> EmptyCode]
                     ELSE IF Len(model_scene) = 1
                     THEN [exc |-> "",
                           code |-> [version |-> version, models |-> models.models,
                                     scene |-> IF rest0[1] = "*" THEN EmptyChunk
                                               ELSE NoneChunk]]
                     ELSE The({ IF scene.exc # "" THEN [exc |-> scene.exc, code |-> EmptyCode]
                                ELSE [exc |-> "",
                                      code |-> [version |-> version, models |-> models.models,
                                                scene |-> scene.chunk]] :
                                scene \in {ChunkParse(model_scene[2])} }) :
                     models \in {The({ CodeParseModels(segs, Len(segs)) :
                                       segs \in {Split(model_scene[1], <<"*">>)} })} }) :
               model_scene \in {Split(IF rest0[1] = "*" THEN Tail(rest0) ELSE rest0,
                                      sceneDelim)} })

\* Code.parse on a new Code: [exc, code]
CodeParse(data) ==
    IF data = <<>> THEN [exc |-> "", code |-> EmptyCode]
    ELSE The({ IF Len(version_rest) = 1 THEN CodeParseRest(68, version_rest[1])
               ELSE The({ IF version.exc # "" THEN [exc |-> version.exc, code |-> EmptyCode]
                          ELSE CodeParseRest(version.val, version_rest[2]) :
                          version \in {int(version_rest[1])} }) :
               version_rest \in {Split(data, <<"*", "*">>)} })

\* the loop of Code.__str__ over the first n model slots, when a scene is present
RECURSIVE CodeStrModels(_, _)
CodeStrModels(models, n) ==
    IF n = 0 THEN <<>>
    ELSE CodeStrModels(models, n - 1) \o <<"*">>
         \o (IF models[n].isNone THEN <<"0">> ELSE ChunkStr(models[n]))

\* Code.__str__ as it would be if the slots were written without a scene too
CodeStrAllSlots(code) ==
    str(code.version) \o <<"*", "*">>
    \o CodeStrModels(code.models, NumSlots)
    \o (IF ~code.scene.isNone THEN sceneDelim \o ChunkStr(code.scene) ELSE <<>>)

\* Code.__str__
CodeStr(code) ==
    str(code.version) \o <<"*", "*">>
    \o (IF ~code.scene.isNone
        THEN CodeStrModels(code.models, NumSlots) \o sceneDelim \o ChunkStr(code.scene)
        ELSE IF ~code.models[1].isNone THEN ChunkStr(code.models[1])
        ELSE <<>>)

----------------------------------------------------------------------------
(* Codes as objects.  A Subcode instance lives in the heap under an         *)
(* identity; a Code held by the program has, in each subcode slot, the      *)
(* identity of the instance, so that two Codes can hold the same instance.  *)
(* Chunks and Components are never shared: every operation that stores one  *)
(* constructs it.  An identity names the allocation that made the instance  *)
(* and the slot (0 the scene, 1..9 the models) and key it was made for.     *)

Id(n, slot, key) == [at |-> n, slot |-> slot, key |-> key]

Range(seq) == {seq[i] : i \in 1..Len(seq)}

\* the heap h with the instances of g added or replaced
Extend(h, g) == [x \in DOMAIN h \cup DOMAIN g |-> IF x \in DOMAIN g THEN g[x] ELSE h[x]]

\* the chunk of a slot: 0 the scene, i the model i - 1
ChunkOf(code, slot) == IF slot = 0 THEN code.scene ELSE code.models[slot]

WithChunk(code, slot, chunk) ==
    IF slot = 0 THEN [code EXCEPT !.scene = chunk] ELSE [code EXCEPT !.models[slot] = chunk]

\* a chunk with F(key, val) in each subcode slot
MapChunk(chunk, F(_, _)) ==
    [chunk EXCEPT !.components =
        [i \in 1..Len(chunk.components) |->
            [key |-> chunk.components[i].key,
             val |-> [chunk.components[i].val EXCEPT !.subcodes =
                         [j \in 1..Len(chunk.components[i].val.subcodes) |->
                             [key |-> chunk.components[i].val.subcodes[j].key,
                              val |-> F(chunk.components[i].val.subcodes[j].key,
                                        chunk.components[i].val.subcodes[j].val)]]]]]]

\* the (slot, key, val) of every subcode slot of a Code
Entries(code) ==
    UNION { UNION { { <<slot, sc.key, sc.val>> : sc \in Range(c.val.subcodes) } :
                    c \in Range(ChunkOf(code, slot).components) } :
            slot \in 0..NumSlots }

\* the Code as the program sees it: each subcode slot with the instance it refers to
Deref(code, h) ==
    [version |-> code.version,
     models  |-> [i \in 1..NumSlots |-> MapChunk(code.models[i], LAMBDA k, v : h[v])],
     scene   |-> MapChunk(code.scene, LAMBDA k, v : h[v])]

\* a Code value made of new instances, allocation n: [code, objs]
AllocCode(code, n) ==
    [code |-> [version |-> code.version,
               models  |-> [i \in 1..NumSlots |->
                               MapChunk(code.models[i], LAMBDA k, v : Id(n, i, k))],
               scene   |-> MapChunk(code.scene, LAMBDA k, v : Id(n, 0, k))],
     objs |-> The({ [id \in {Id(n, e[1], e[2]) : e \in entries} |->
                        The({e[3] : e \in {x \in entries : x[1] = id.slot /\ x[2] = id.key}})] :
                    entries \in {Entries(code)} })]

\* Code.copy, Chunk.copy, Component.copy, Subcode.copy: every instance is cloned
CodeCopy(code, h, n) ==
    The({ [code |-> new.code, heap |-> Extend(h, new.objs)] :
          new \in {AllocCode(Deref(code, h), n)} })

\* Chunk.__getattr__: the component of a kind, created when the chunk has none
ChunkGetAttr(chunk, ctype) ==
    IF DictHas(chunk.components, ctype) THEN chunk
    ELSE [chunk EXCEPT !.components = DictPut(@, ctype, Component(ctype))]

\* Component.__getitem__ on the component ctype of the chunk in a slot: the subcode
\* of the key, parsed from the key alone when the component has none.  [code, heap]
ComponentGetItem(w, slot, ctype, key, n) ==
    The({ IF DictHas(component.subcodes, key) THEN w
          ELSE [code |-> WithChunk(w.code, slot,
                            [ChunkOf(w.code, slot) EXCEPT !.components =
                                DictPut(@, ctype,
                                    [component EXCEPT !.subcodes =
                                        DictPut(@, key, Id(n, slot, key))])]),
                heap |-> Extend(w.heap, [id \in {Id(n, slot, key)} |->
                                            SubcodeFromString(key).sub])] :
          component \in {DictGet(ChunkOf(w.code, slot).components, ctype)} })

\* the instance under a key of the component ctype of the chunk in a slot
RefOf(code, slot, ctype, key) ==
    DictGet(DictGet(ChunkOf(code, slot).components, ctype).subcodes, key)

\* the table of Code._convertShoe: old type -> (type, top, source of TopColor1,
\* source of TopColor2, source of Color2); "" is None, the field is left as it is
shoeRemap ==
    << [key |-> <<"0">>,      val |-> [type |-> <<>>, top |-> <<"1">>, c1 |-> "Color2", c2 |-> "", c3 |-> "Color1"]],
       [key |-> <<"1">>,      val |-> [type |-> <<>>, top |-> <<"2">>, c1 |-> "Color2", c2 |-> "", c3 |-> "Color3"]],
       [key |-> <<"1", "0">>, val |-> [type |-> <<"1">>, top |-> <<"3">>, c1 |-> "Color2", c2 |-> "", c3 |-> "Color3"]],
       [key |-> <<"1", "1">>, val |-> [type |-> <<"1">>, top |-> <<"4">>, c1 |-> "Color2", c2 |-> "", c3 |-> "Color3"]],
       [key |-> <<"1", "5">>, val |-> [type |-> <<>>, top |-> <<"6">>, c1 |-> "Color2", c2 |-> "", c3 |-> "Color1"]],
       [key |-> <<"1", "6">>, val |-> [type |-> <<"1">>, top |-> <<"7">>, c1 |-> "Color2", c2 |-> "", c3 |-> "Color3"]],
       [key |-> <<"1", "7">>, val |-> [type |-> <<"1", "4">>, top |-> <<"8">>, c1 |-> "Color1", c2 |-> "Color2", c3 |-> "Color3"]],
       [key |-> <<"1", "8">>, val |-> [type |-> <<"1", "4">>, top |-> <<"9">>, c1 |-> "Color1", c2 |-> "Color2", c3 |-> "Color3"]],
       [key |-> <<"1", "9">>, val |-> [type |-> <<"1", "5">>, top |-> <<"1", "0">>, c1 |-> "Color2", c2 |-> "", c3 |-> "Color3"]],
       [key |-> <<"2", "0">>, val |-> [type |-> <<"1", "6">>, top |-> <<"1", "1">>, c1 |-> "Color2", c2 |-> "", c3 |-> ""]] >>

\* Code._convertShoe: the five values are read from the shoe, then assigned
convertShoe(shoe) ==
    IF ~DictHas(shoeRemap, SubcodeGetItem(shoe, "Type")) THEN shoe
    ELSE The({ SubcodeSetAttr(
                 SubcodeSetAttr(
                   SubcodeSetAttr(
                     SubcodeSetAttr(
                       SubcodeSetAttr(shoe, "Type",
                           IF entry.type = <<>> THEN SubcodeGetItem(shoe, "Type") ELSE entry.type),
                       "Top", entry.top),
                     "TopColor1", SubcodeGetItem(shoe, entry.c1)),
                   "TopColor2",
                   SubcodeGetItem(shoe, IF entry.c2 = "" THEN "TopColor2" ELSE entry.c2)),
                 "Color2", SubcodeGetItem(shoe, IF entry.c3 = "" THEN "Color2" ELSE entry.c3)) :
               entry \in {DictGet(shoeRemap, SubcodeGetItem(shoe, "Type"))} })

\* the three assignments expr.hd.OffsetX = expr.hd.OffsetY = expr.hd.Rotation = 50
\* of Code.convertVer, on the model chunk of a slot that has an Expression component
ConvertExpression(w, slot, n) ==
    The({ [code |-> got.code,
           heap |-> [got.heap EXCEPT ![RefOf(got.code, slot, "Expression", <<"h", "d">>)] =
                        SubcodeSetAttr(
                            SubcodeSetAttr(
                                SubcodeSetAttr(@, "OffsetX", <<"5", "0">>),
                                "OffsetY", <<"5", "0">>),
                            "Rotation", <<"5", "0">>)]] :
          got \in {ComponentGetItem(w, slot, "Expression", <<"h", "d">>, n)} })

\* Code._convertShoe(clothes.jd) and Code._convertShoe(clothes.je) on the chunk of a slot
ConvertShoeAt(w, slot, key, n) ==
    The({ [code |-> got.code,
           heap |-> [got.heap EXCEPT ![RefOf(got.code, slot, "Clothing", key)] =
                        convertShoe(@)]] :
          got \in {ComponentGetItem(w, slot, "Clothing", key, n)} })

\* the body of the loop of Code.convertVer for the model chunk of a slot.  The
\* assignment clothes = model.Clothing comes before the test for a Clothing
\* component, and Chunk.__getattr__ creates the component.
ConvertModel(w, slot, n) ==
    The({ The({ IF DictHas(ChunkOf(w2.code, slot).components, "Clothing")
                THEN ConvertShoeAt(ConvertShoeAt(w2, slot, <<"j", "d">>, n),
                                   slot, <<"j", "e">>, n)
                ELSE w2 :
                w2 \in {[code |-> WithChunk(w1.code, slot,
                                    ChunkGetAttr(ChunkOf(w1.code, slot), "Clothing")),
                         heap |-> w1.heap]} }) :
          w1 \in {IF DictHas(ChunkOf(w.code, slot).components, "Expression")
                  THEN ConvertExpression(w, slot, n)
                  ELSE w} })

\* the loop of Code.convertVer over the first i model slots
RECURSIVE ConvertModels(_, _, _)
ConvertModels(w, i, n) ==
    IF i = 0 THEN w
    ELSE The({ IF ChunkOf(prev.code, i).isNone THEN prev ELSE ConvertModel(prev, i, n) :
               prev \in {ConvertModels(w, i - 1, n)} })

\* Code.convertVer as it would be without the test of the current version
convertVerFromAnyVersion(code, h, new, n) ==
    IF new < 83 THEN [code |-> code, heap |-> h]
    ELSE The({ [code |-> [w.code EXCEPT !.version = new], heap |-> w.heap] :
               w \in {ConvertModels([code |-> code, heap |-> h], NumSlots, n)} })

\* Code.convertVer as it would be without the test of the new version
convertVerToAnyVersion(code, h, new, n) ==
    IF code.version >= 83 THEN [code |-> code, heap |-> h]
    ELSE The({ [code |-> [w.code EXCEPT !.version = new], heap |-> w.heap] :
               w \in {ConvertModels([code |-> code, heap |-> h], NumSlots, n)} })

\* Code.convertVer: [code, heap]
convertVer(code, h, new, n) ==
    IF code.version >= 83 \/ new < 83 THEN [code |-> code, heap |-> h]
    ELSE The({ [code |-> [w.code EXCEPT !.version = new], heap |-> w.heap] :
               w \in {ConvertModels([code |-> code, heap |-> h], NumSlots, n)} })

\* the merge of a slot as it would be if an unset chunk of other were merged as an
\* empty one
ChunkEventsOfUnset(chunk, slot) ==
    <<[kind |-> "chunk", slot |-> slot, ctype |-> "", key |-> <<>>,
       ref |-> Id(0, 0, <<>>), assets |-> chunk.assets]>>
    \o Join([i \in 1..Len(chunk.components) |->
               <<[kind |-> "component", slot |-> slot, ctype |-> chunk.components[i].key,
                  key |-> <<>>, ref |-> Id(0, 0, <<>>), assets |-> <<>>]>>
               \o [j \in 1..Len(chunk.components[i].val.subcodes) |->
                     [kind |-> "subcode", slot |-> slot,
                      ctype |-> chunk.components[i].key,
                      key |-> chunk.components[i].val.subcodes[j].key,
                      ref |-> chunk.components[i].val.subcodes[j].val,
                      assets |-> <<>>]]],
            <<>>)

\* what Code.merge and Chunk.merge and Component.merge do for the chunk of a slot
\* of other, in order: the chunk itself, then each component and its subcodes
ChunkEvents(chunk, slot) ==
    IF chunk.isNone THEN <<>>
    ELSE <<[kind |-> "chunk", slot |-> slot, ctype |-> "", key |-> <<>>,
            ref |-> Id(0, 0, <<>>), assets |-> chunk.assets]>>
         \o Join([i \in 1..Len(chunk.components) |->
                    <<[kind |-> "component", slot |-> slot, ctype |-> chunk.components[i].key,
                       key |-> <<>>, ref |-> Id(0, 0, <<>>), assets |-> <<>>]>>
                    \o [j \in 1..Len(chunk.components[i].val.subcodes) |->
                          [kind |-> "subcode", slot |-> slot,
                           ctype |-> chunk.components[i].key,
                           key |-> chunk.components[i].val.subcodes[j].key,
                           ref |-> chunk.components[i].val.subcodes[j].val,
                           assets |-> <<>>]]],
                 <<>>)

\* the scene first, then the models in slot order
MergeEvents(other) ==
    Join([k \in 1..(NumSlots + 1) |-> ChunkEvents(ChunkOf(other, k - 1), k - 1)], <<>>)

\* one step of the merge into self: [code, heap, exc]
MergeStep(w, ev) ==
    The({ IF ev.kind = "chunk"
          THEN \* Code.merge: an empty chunk where self has none; Chunk.merge: the assets
               [w EXCEPT !.code = WithChunk(w.code, ev.slot,
                                     [(IF chunk.isNone THEN EmptyChunk ELSE chunk)
                                         EXCEPT !.assets = ev.assets])]
          ELSE IF ev.kind = "component"
          THEN \* Chunk.merge: the component is created when self has none of the kind
               [w EXCEPT !.code = WithChunk(w.code, ev.slot, ChunkGetAttr(chunk, ev.ctype))]
          ELSE \* Component.merge: a new key takes the instance of other, a key that
               \* self has merges the instance of other into its own
               The({ IF ~DictHas(component.subcodes, ev.key)
                     THEN [w EXCEPT !.code =
                              WithChunk(w.code, ev.slot,
                                  [chunk EXCEPT !.components =
                                      DictPut(@, ev.ctype,
                                          [component EXCEPT !.subcodes =
                                              DictPut(@, ev.key, ev.ref)])])]
                     ELSE The({ [code |-> w.code,
                                 heap |-> [w.heap EXCEPT ![DictGet(component.subcodes, ev.key)] =
                                              merged.sub],
                                 exc  |-> merged.exc] :
                                merged \in {SubcodeMerge(
                                               w.heap[DictGet(component.subcodes, ev.key)],
                                               w.heap[ev.ref], <<"all">>)} }) :
                     component \in {DictGet(chunk.components, ev.ctype)} }) :
          chunk \in {ChunkOf(w.code, ev.slot)} })

\* the first n steps of the merge, up to the first exception
RECURSIVE MergeSteps(_, _, _)
MergeSteps(w, events, n) ==
    IF n = 0 THEN w
    ELSE The({ IF prev.exc # "" THEN prev ELSE MergeStep(prev, events[n]) :
               prev \in {MergeSteps(w, events, n - 1)} })

\* the version handling of Code.merge as it would be if other were converted itself
\* and not a copy of it
MergeVersionsInPlace(self, other, h, n) ==
    IF self.version > other.version
    THEN The({ [self |-> self, other |-> conv.code, heap |-> conv.heap] :
               conv \in {convertVer(other, h, self.version, n)} })
    ELSE IF self.version < other.version
    THEN The({ [self |-> conv.code, other |-> other, heap |-> conv.heap] :
               conv \in {convertVer(self, h, other.version, n)} })
    ELSE [self |-> self, other |-> other, heap |-> h]

\* the version handling of Code.merge: [self, other, heap]
MergeVersions(self, other, h, n) ==
    IF self.version > other.version
    THEN The({ [self |-> self, other |-> conv.code, heap |-> conv.heap] :
               conv \in {The({ convertVer(copy.code, copy.heap, self.version, n) :
                               copy \in {CodeCopy(other, h, n)} })} })
    ELSE IF self.version < other.version
    THEN The({ [self |-> conv.code, other |-> other, heap |-> conv.heap] :
               conv \in {convertVer(self, h, other.version, n)} })
    ELSE [self |-> self, other |-> other, heap |-> h]

\* Code.merge: [code, heap, exc]
CodeMerge(self, other, h, n) ==
    The({ The({ MergeSteps([code |-> v.self, heap |-> v.heap, exc |-> ""], events, Len(events)) :
                events \in {MergeEvents(v.other)} }) :
          v \in {MergeVersions(self, other, h, n)} })

----------------------------------------------------------------------------
(* The mixer.  A Source is its name, its three tag sets and the Codes it    *)
(* resolves to; an Option is a list of Sources.  The dict that the          *)
(* enumeration builds is a sequence of entries [key, val, chain]: key the   *)
(* name, val the Code as the program sees it, and chain the choices that    *)
(* made the entry, [option, source, code] positions, which the program does *)
(* not keep.                                                                *)

\* Source.__init__ and Source.codes, with the Codes the path resolves to
Source(name, blacklist, whitelist, tags, resolved) ==
    [name |-> name, blacklist |-> blacklist, whitelist |-> whitelist, tags |-> tags,
     codes |-> resolved]

\* Option.__init__
Option(sources) == [sources |-> sources]

Pick(index, k, j) == [option |-> index, source |-> k, code |-> j]

\* total[name] = code
TotalPut(total, name, code, chain) ==
    IF \E i \in 1..Len(total) : total[i].key = name
    THEN [i \in 1..Len(total) |->
             IF total[i].key = name THEN [key |-> name, val |-> code, chain |-> chain]
             ELSE total[i]]
    ELSE Append(total, [key |-> name, val |-> code, chain |-> chain])

\* code = src_code.copy(); code.merge(ext_code): [exc, code].  The copy is made of
\* new instances and the merge changes no instance of ext_code.
MergedCopy(src_code, ext_code) ==
    The({ The({ [exc |-> r.exc, code |-> Deref(r.code, r.heap)] :
                r \in {CodeMerge(a.code, b.code, Extend(a.objs, b.objs), 2)} }) :
          a \in {AllocCode(src_code, 0)}, b \in {AllocCode(ext_code, 1)} })

\* the loop over ext.items() of MixerProgram._enumerate_codes, its first m items
RECURSIVE MergeExt(_, _, _, _, _, _)
MergeExt(acc, basename, src_code, pick, ext, m) ==
    IF m = 0 THEN acc
    ELSE The({ IF prev.exc # "" THEN prev
               ELSE The({ IF merged.exc # ""
                          THEN [exc |-> merged.exc, total |-> prev.total]
                          ELSE [exc |-> "",
                                total |-> TotalPut(prev.total,
                                              basename \o <<"_">> \o ext[m].key,
                                              merged.code, <<pick>> \o ext[m].chain)] :
                          merged \in {MergedCopy(src_code, ext[m].val)} }) :
               prev \in {MergeExt(acc, basename, src_code, pick, ext, m - 1)} })

\* the loop over enumerate(source.codes()) below the last Option, its first j Codes
RECURSIVE InnerCodes(_, _, _, _, _, _)
InnerCodes(acc, source, index, k, ext, j) ==
    IF j = 0 THEN acc
    ELSE The({ IF prev.exc # "" THEN prev
               ELSE MergeExt(prev,
                        source.name \o (IF Len(source.codes) > 1 THEN str(j - 1) ELSE <<>>),
                        source.codes[j], Pick(index, k, j), ext, Len(ext)) :
               prev \in {InnerCodes(acc, source, index, k, ext, j - 1)} })

\* the loop over enumerate(source.codes()) at the last Option, its first j Codes:
\* name += sci adds an int to a str
RECURSIVE LastCodes(_, _, _, _, _)
LastCodes(acc, source, index, k, j) ==
    IF j = 0 THEN acc
    ELSE The({ IF prev.exc # "" THEN prev
               ELSE IF Len(source.codes) > 1
               THEN [exc |-> "TypeError", total |-> prev.total]
               ELSE [exc |-> "",
                     total |-> TotalPut(prev.total, source.name, source.codes[j],
                                        <<Pick(index, k, j)>>)] :
               prev \in {LastCodes(acc, source, index, k, j - 1)} })

RECURSIVE EnumerateSources(_, _, _, _, _, _)

\* the loop body as it would be if only the tags of the Source were tested against
\* the blacklist gathered so far
EnumerateSourceOneWay(options, index, tags, blacklist, whitelist, acc, k) ==
    The({ IF source.tags \cap blacklist # {}
          THEN acc
          ELSE The({ IF whitelist_new # {} /\ whitelist_new \ tags_new # {}
                        /\ index = Len(options)
                     THEN acc
                     ELSE IF index < Len(options)
                     THEN The({ IF ext.exc # ""
                                THEN [exc |-> ext.exc, total |-> acc.total]
                                ELSE InnerCodes(acc, source, index, k, ext.total,
                                                Len(source.codes)) :
                                ext \in {EnumerateSources(options, index + 1, tags_new,
                                             blacklist \cup source.blacklist, whitelist_new,
                                             Len(options[index + 1].sources))} })
                     ELSE LastCodes(acc, source, index, k, Len(source.codes)) :
                     whitelist_new \in {whitelist \cup source.whitelist},
                     tags_new \in {tags \cup source.tags} }) :
          source \in {options[index].sources[k]} })

\* the loop body as it would be with no test of the whitelist
EnumerateSourceNoWhitelist(options, index, tags, blacklist, whitelist, acc, k) ==
    The({ IF source.tags \cap blacklist # {} \/ source.blacklist \cap tags # {}
          THEN acc
          ELSE The({ IF FALSE
                     THEN acc
                     ELSE IF index < Len(options)
                     THEN The({ IF ext.exc # ""
                                THEN [exc |-> ext.exc, total |-> acc.total]
                                ELSE InnerCodes(acc, source, index, k, ext.total,
                                                Len(source.codes)) :
                                ext \in {EnumerateSources(options, index + 1, tags_new,
                                             blacklist \cup source.blacklist, whitelist_new,
                                             Len(options[index + 1].sources))} })
                     ELSE LastCodes(acc, source, index, k, Len(source.codes)) :
                     whitelist_new \in {whitelist \cup source.whitelist},
                     tags_new \in {tags \cup source.tags} }) :
          source \in {options[index].sources[k]} })

\* the body of the loop over option.sources for the Source at position k; the
\* Options are counted from 1
EnumerateSource(options, index, tags, blacklist, whitelist, acc, k) ==
    The({ IF source.tags \cap blacklist # {} \/ source.blacklist \cap tags # {}
          THEN acc
          ELSE The({ IF whitelist_new # {} /\ whitelist_new \ tags_new # {}
                        /\ index = Len(options)
                     THEN acc
                     ELSE IF index < Len(options)
                     THEN The({ IF ext.exc # ""
                                THEN [exc |-> ext.exc, total |-> acc.total]
                                ELSE InnerCodes(acc, source, index, k, ext.total,
                                                Len(source.codes)) :
                                ext \in {EnumerateSources(options, index + 1, tags_new,
                                             blacklist \cup source.blacklist, whitelist_new,
                                             Len(options[index + 1].sources))} })
                     ELSE LastCodes(acc, source, index, k, Len(source.codes)) :
                     whitelist_new \in {whitelist \cup source.whitelist},
                     tags_new \in {tags \cup source.tags} }) :
          source \in {options[index].sources[k]} })

\* MixerProgram._enumerate_codes, the loop over the first k Sources of the Option:
\* [exc, total]
EnumerateSources(options, index, tags, blacklist, whitelist, k) ==
    IF k = 0 THEN [exc |-> "", total |-> <<>>]
    ELSE The({ IF prev.exc # "" THEN prev
               ELSE EnumerateSource(options, index, tags, blacklist, whitelist, prev, k) :
               prev \in {EnumerateSources(options, index, tags, blacklist, whitelist, k - 1)} })

\* os.path.join of two parts
PathJoin(a, b) ==
    IF b # <<>> /\ b[1] = "/" THEN b
    ELSE IF a = <<>> \/ a[Len(a)] = "/" THEN a \o b
    ELSE a \o <<"/">> \o b

\* MixerProgram.enumerate_codes: [exc, total]; self.options[0] of no Options is an
\* IndexError
enumerate_codes(program) ==
    IF Len(program.options) = 0 THEN [exc |-> "IndexError", total |-> <<>>]
    ELSE The({ [exc |-> d.exc,
                total |-> IF d.exc # "" THEN <<>>
                          ELSE [i \in 1..Len(d.total) |->
                                   [d.total[i] EXCEPT !.key = PathJoin(program.destdir, @)]]] :
               d \in {EnumerateSources(program.options, 1, {}, {}, {},
                                       Len(program.options[1].sources))} })

----------------------------------------------------------------------------
(* The input texts of the round-trip pipeline. *)

\* model segments: chunk texts, the unset-slot marker '0' and the empty text
Segments ==
    { <<"a", "a", "1", ".", "2", "_", "h", "d", "3">>,
      <<"0">>,
      <<>>,
      <<"a", "a", ".", "5">>,
      <<"m", "3", "_", "u", "1", "2">>,
      <<"a", "a", "1", "/", "#", "]", "x">>,
      <<"z", "z", "1">> }

SceneSegments == { <<"a", "a", "7">>, <<>> }

\* the lists of at most n segments
RECURSIVE SegmentLists(_)
SegmentLists(n) ==
    IF n = 0 THEN { <<>> }
    ELSE The({ shorter \cup {Append(l, g) : l \in {x \in shorter : Len(x) = n - 1},
                                             g \in Segments} :
               shorter \in {SegmentLists(n - 1)} })

VersionPrefixes == { <<>>, <<"6", "8", "*", "*">>, <<"1", "0", "5", "*", "*">> }

\* texts that are rejected, or that fill more than the nine slots
SpecialTexts ==
    { <<"*", "*", "a", "a", "1">>,
      <<"6", "8", "*", "*">>,
      <<"6", "8", "*", "*", "a">>,
      <<"6", "8", "*", "*", "m", "3", ".", "5">>,
      <<"-", "1", "*", "*", "a", "a", "1">>,
      <<"6", "8", "*", "*", "*", "0", "*", "0", "*", "0", "*", "0", "*", "0", "*", "0",
        "*", "0", "*", "0", "*", "a", "a", "1", "#", "/", "]", "a", "a", "2">>,
      <<"6", "8", "*", "*", "*", "0", "*", "0", "*", "0", "*", "0", "*", "0", "*", "0",
        "*", "0", "*", "0", "*", "0", "*", "a", "a", "1">> }

Texts ==
    { v \o mark \o Join(l, <<"*">>) \o sc :
        v \in VersionPrefixes, mark \in { <<>>, <<"*">> },
        l \in SegmentLists(MaxSegments),
        sc \in { <<>> } \cup {sceneDelim \o g : g \in SceneSegments} }
    \cup SpecialTexts

----------------------------------------------------------------------------
(* The round-trip pipeline: a text is parsed, the Code serialized, the     *)
(* output parsed again, and so on.  hist holds the Codes parsed so far.    *)

InitRoundTrip ==
    /\ text \in Texts
    /\ hist = <<>>
    /\ op = [name |-> "init", input |-> text]
    /\ exc = ""
    /\ steps = 0
    /\ heap = <<>>
    /\ codes = <<>>
    /\ pre = <<>>
    /\ mixer = <<>>

\* Code(text)
Parse ==
    /\ op.name \in {"init", "serialize"}
    /\ Len(hist) < MaxGenerations
    /\ \E r \in {CodeParse(text)} :
           /\ exc' = r.exc
           /\ hist' = IF r.exc = "" THEN Append(hist, r.code) ELSE hist
    /\ op' = [name |-> "parse", input |-> op.input]
    /\ steps' = steps + 1
    /\ UNCHANGED <<text, heap, codes, pre, mixer>>

\* str(code)
Serialize ==
    /\ op.name = "parse"
    /\ exc = ""
    /\ text' = CodeStr(hist[Len(hist)])
    /\ op' = [name |-> "serialize", input |-> op.input]
    /\ steps' = steps + 1
    /\ UNCHANGED <<hist, exc, heap, codes, pre, mixer>>

NextRoundTrip == Parse \/ Serialize

SpecRoundTrip == InitRoundTrip /\ [][NextRoundTrip]_vars

----------------------------------------------------------------------------
(* Two Codes a and b, parsed from texts, and the calls a program makes on   *)
(* them: Code.merge, Code.convertVer, and Subcode.merge on their subcodes.  *)
(* Here hist holds the calls made so far and pre the Codes before the last. *)

\* the texts the two Codes are parsed from
ObjectTexts ==
    {
      \* 68**aa1.2_hd3.4.5.6
      <<"6", "8", "*", "*", "a", "a", "1", ".", "2", "_", "h", "d", "3", ".", "4", ".", "5", ".", "6">>,
      \* 68**jd0.1.2_aa.5
      <<"6", "8", "*", "*", "j", "d", "0", ".", "1", ".", "2", "_", "a", "a", ".", "5">>,
      \* 70**aa_hd1
      <<"7", "0", "*", "*", "a", "a", "_", "h", "d", "1">>,
      \* 83**aa1.2.3_je1.5
      <<"8", "3", "*", "*", "a", "a", "1", ".", "2", ".", "3", "_", "j", "e", "1", ".", "5">>,
      \* 105***aa3*hd9#/]aa7/#]as
      <<"1", "0", "5", "*", "*", "*", "a", "a", "3", "*", "h", "d", "9", "#", "/", "]", "a", "a", "7", "/", "#", "]", "a", "s">>,
      \* the empty text
      <<>> }

\* the versions Code.convertVer is called with
Targets == {70, 83}

CodeNames == {"a", "b"}

NoId == Id(0 - 1, 0, <<>>)

Call(name, self, other, new, into, from) ==
    [name |-> name, self |-> self, other |-> other, new |-> new, into |-> into, from |-> from]

Init ==
    /\ \E ta \in ObjectTexts, tb \in ObjectTexts :
         \E ca \in {AllocCode(CodeParse(ta).code, 0)}, cb \in {AllocCode(CodeParse(tb).code, 1)} :
            /\ codes = [x \in CodeNames |-> IF x = "a" THEN ca.code ELSE cb.code]
            /\ heap = Extend(ca.objs, cb.objs)
            /\ pre = [heap |-> Extend(ca.objs, cb.objs),
                      codes |-> [x \in CodeNames |-> IF x = "a" THEN ca.code ELSE cb.code]]
    /\ text = <<>>
    /\ hist = <<>>
    /\ op = Call("init", "", "", 0, NoId, NoId)
    /\ exc = ""
    /\ steps = 0
    /\ mixer = <<>>

\* what every call does besides its effect on the Codes
Called(call, e) ==
    /\ steps < MaxSteps
    /\ op' = call
    /\ hist' = Append(hist, call)
    /\ exc' = e
    /\ steps' = steps + 1
    /\ pre' = [heap |-> heap, codes |-> codes]
    /\ UNCHANGED <<text, mixer>>

\* codes[x].merge(codes[y])
Merge ==
    \E x \in CodeNames, y \in CodeNames :
        /\ x # y
        /\ \E r \in {CodeMerge(codes[x], codes[y], heap, steps + 2)} :
              /\ codes' = [codes EXCEPT ![x] = r.code]
              /\ heap' = r.heap
              /\ Called(Call("merge", x, y, 0, NoId, NoId), r.exc)

\* empty = Code(); empty.version = codes[x].version; codes[x].merge(empty)
MergeEmpty ==
    \E x \in CodeNames :
        \E r \in {CodeMerge(codes[x], [EmptyCode EXCEPT !.version = codes[x].version],
                            heap, steps + 2)} :
            /\ codes' = [codes EXCEPT ![x] = r.code]
            /\ heap' = r.heap
            /\ Called(Call("mergeEmpty", x, "", 0, NoId, NoId), r.exc)

\* codes[x].convertVer(new)
ConvertVer ==
    \E x \in CodeNames, new \in Targets :
        \E r \in {convertVer(codes[x], heap, new, steps + 2)} :
            /\ codes' = [codes EXCEPT ![x] = r.code]
            /\ heap' = r.heap
            /\ Called(Call("convertVer", x, "", new, NoId, NoId), "")

\* A.merge(B) for a subcode A of codes[x] and a subcode B of codes[y]
MergeSubcode ==
    \E x \in CodeNames, y \in CodeNames :
        /\ x # y
        /\ \E ex \in Entries(codes[x]), ey \in Entries(codes[y]) :
              \E r \in {SubcodeMerge(heap[ex[3]], heap[ey[3]], <<"all">>)} :
                  /\ heap' = [heap EXCEPT ![ex[3]] = r.sub]
                  /\ UNCHANGED codes
                  /\ Called(Call("subcodeMerge", x, y, 0, ex[3], ey[3]), r.exc)

Next == Merge \/ MergeEmpty \/ ConvertVer \/ MergeSubcode

Spec == Init /\ [][Next]_vars

----------------------------------------------------------------------------
(* A MixerProgram is loaded, Option by Option and Source by Source, and     *)
(* enumerate_codes is called on it.  codes holds the dict it returns.       *)

\* the number of Options of a program
MaxOptions == 2

\* the number of Sources of a program, over all its Options
MaxSources == 3

\* the Sources a program is loaded with
SourcePool ==
    { \* r: tagged red; 68**aa1.2_hd3
      Source(<<"r">>, {}, {}, {"red"}, <<CodeParse(<<"6", "8", "*", "*", "a", "a", "1", ".", "2", "_", "h", "d", "3">>).code>>),
      \* n: not with red; 68**aa7
      Source(<<"n">>, {"red"}, {}, {}, <<CodeParse(<<"6", "8", "*", "*", "a", "a", "7">>).code>>),
      \* w: wants formal; 68**aa.5.6_hd1
      Source(<<"w">>, {}, {"formal"}, {}, <<CodeParse(<<"6", "8", "*", "*", "a", "a", ".", "5", ".", "6", "_", "h", "d", "1">>).code>>),
      \* f: tagged formal; 68**aa1.2.3
      Source(<<"f">>, {}, {}, {"formal"}, <<CodeParse(<<"6", "8", "*", "*", "a", "a", "1", ".", "2", ".", "3">>).code>>),
      \* z: its path matches no file
      Source(<<"z">>, {}, {}, {}, <<>>),
      \* m: its path matches two files; 68**aa4 and 68**hd5.6
      Source(<<"m">>, {}, {}, {}, <<CodeParse(<<"6", "8", "*", "*", "a", "a", "4">>).code,
                                     CodeParse(<<"6", "8", "*", "*", "h", "d", "5", ".", "6">>).code>>) }

Destdirs == { <<"o">>, <<>> }

\* the number of Sources of the Options
RECURSIVE CountSources(_, _)
CountSources(options, n) ==
    IF n = 0 THEN 0 ELSE CountSources(options, n - 1) + Len(options[n].sources)

InitMixer ==
    /\ mixer \in { [destdir |-> d, options |-> <<>>] : d \in Destdirs }
    /\ op = [name |-> "load"]
    /\ codes = <<>>
    /\ exc = ""
    /\ steps = 0
    /\ heap = <<>>
    /\ text = <<>>
    /\ hist = <<>>
    /\ pre = <<>>

\* the next Option of the program description
AddOption ==
    /\ op.name = "load"
    /\ Len(mixer.options) < MaxOptions
    /\ mixer' = [mixer EXCEPT !.options = Append(@, Option(<<>>))]
    /\ steps' = steps + 1
    /\ UNCHANGED <<op, codes, exc, heap, text, hist, pre>>

\* the next Source of the last Option
AddSource ==
    /\ op.name = "load"
    /\ Len(mixer.options) > 0
    /\ CountSources(mixer.options, Len(mixer.options)) < MaxSources
    /\ \E source \in SourcePool :
          mixer' = [mixer EXCEPT !.options[Len(mixer.options)].sources = Append(@, source)]
    /\ steps' = steps + 1
    /\ UNCHANGED <<op, codes, exc, heap, text, hist, pre>>

\* mixer.enumerate_codes()
Enumerate ==
    /\ op.name = "load"
    /\ \E d \in {enumerate_codes(mixer)} :
          /\ codes' = d.total
          /\ exc' = d.exc
    /\ op' = [name |-> "enumerate"]
    /\ steps' = steps + 1
    /\ UNCHANGED <<mixer, heap, text, hist, pre>>

NextMixer == AddOption \/ AddSource \/ Enumerate

SpecMixer == InitMixer /\ [][NextMixer]_vars

----------------------------------------------------------------------------
(* The calls on one Subcode: a Subcode read from a token, then up to        *)
(* MaxCalls calls of __getitem__, __setitem__, __setattr__ and merge.       *)
(* codes is the Subcode, pre the Subcode before the last call, op the call  *)
(* with its arguments and, for __getitem__, what it returned.               *)

MaxCalls == 2

Token(t) == SubcodeFromString(t).sub

\* the tokens of the Subcode under test: aa1.2, aa, hd3.4, jd0.1.2
SelfTokens ==
    { <<"a", "a", "1", ".", "2">>, <<"a", "a">>,
      <<"h", "d", "3", ".", "4">>, <<"j", "d", "0", ".", "1", ".", "2">> }

\* the tokens of the other Subcode of merge: aa1.2.3, aa.5, aa7, hd1.9.8, jd5.6
OtherTokens ==
    { <<"a", "a", "1", ".", "2", ".", "3">>, <<"a", "a", ".", "5">>, <<"a", "a", "7">>,
      <<"h", "d", "1", ".", "9", ".", "8">>, <<"j", "d", "5", ".", "6">> }

\* names given as keys: field names of the kinds, and a name of no kind
KeyNames == {"x", "y", "Rotation", "zz"}

KeyIndexes == {0 - 1, 0, 2, 3}

\* values given to __setitem__: the str '7' and the int 12
Values == { [isint |-> FALSE, n |-> 0, s |-> <<"7">>], [isint |-> TRUE, n |-> 12, s |-> <<>>] }

Modes == { <<"all">>, <<"pose">>, <<"color", "expr">>, <<"body">> }

SubcodeCall(name) ==
    [name |-> name, key |-> "", index |-> 0, value |-> <<>>, other |-> Subcode("", <<>>, 0 - 1, <<>>),
     mode |-> <<>>, result |-> <<>>]

InitSubcode ==
    /\ codes \in { Token(t) : t \in SelfTokens }
    /\ pre = codes
    /\ op = SubcodeCall("init")
    /\ exc = ""
    /\ steps = 0
    /\ heap = <<>>
    /\ text = <<>>
    /\ hist = <<>>
    /\ mixer = <<>>

SubcodeCalled(call, sub, e) ==
    /\ steps < MaxCalls
    /\ op' = call
    /\ codes' = sub
    /\ exc' = e
    /\ pre' = codes
    /\ steps' = steps + 1
    /\ UNCHANGED <<heap, text, hist, mixer>>

\* self[key] with a name
GetItemByName ==
    \E key \in KeyNames :
        \E r \in {SubcodeGetItem(codes, key)} :
            SubcodeCalled([SubcodeCall("getitem") EXCEPT !.key = key, !.result = r], codes, "")

\* self[key] with an integer
GetItemByIndex ==
    \E key \in KeyIndexes :
        \E r \in {SubcodeGetIndex(codes, key)} :
            SubcodeCalled([SubcodeCall("getindex") EXCEPT !.index = key, !.result = r], codes, "")

\* self[key] = value with a name
SetItemByName ==
    \E key \in KeyNames, value \in Values :
        \E r \in {SubcodeSetItem(codes, key, PyStr(value))} :
            SubcodeCalled([SubcodeCall("setitem") EXCEPT !.key = key, !.value = PyStr(value)],
                          r, "")

\* self[key] = value with an integer
SetItemByIndex ==
    \E key \in KeyIndexes, value \in Values :
        \E r \in {SubcodeSetIndex(codes, key, PyStr(value))} :
            SubcodeCalled([SubcodeCall("setindex") EXCEPT !.index = key, !.value = PyStr(value)],
                          r.sub, r.exc)

\* self.key = value
SetAttr ==
    \E key \in KeyNames, value \in Values :
        \E r \in {SubcodeSetAttr(codes, key, PyStr(value))} :
            SubcodeCalled([SubcodeCall("setattr") EXCEPT !.key = key, !.value = PyStr(value)],
                          r, "")

\* self.merge(other, mode)
MergeOther ==
    \E t \in OtherTokens, mode \in Modes :
        \E r \in {SubcodeMerge(codes, Token(t), mode)} :
            SubcodeCalled([SubcodeCall("merge") EXCEPT !.other = Token(t), !.mode = mode],
                          r.sub, r.exc)

\* len(self)
LenOf ==
    \E r \in {SubcodeLen(codes)} :
        SubcodeCalled([SubcodeCall("len") EXCEPT !.index = r], codes, "")

\* str(self)
StrOf ==
    \E r \in {SubcodeStr(codes)} :
        SubcodeCalled([SubcodeCall("str") EXCEPT !.result = r], codes, "")

\* self.clear()
ClearSelf ==
    \E r \in {SubcodeClear(codes)} :
        SubcodeCalled(SubcodeCall("clear"), r, "")

NextSubcode ==
    \/ LenOf
    \/ StrOf
    \/ ClearSelf
    \/ GetItemByName
    \/ GetItemByIndex
    \/ SetItemByName
    \/ SetItemByIndex
    \/ SetAttr
    \/ MergeOther

SpecSubcode == InitSubcode /\ [][NextSubcode]_vars

----------------------------------------------------------------------------
(* filter, exclude and fastloadList on a Code of values.  The keys given to *)
(* filter are strings; a tag or a key of the Code, a list of characters,    *)
(* is compared as the string it spells.                                     *)

\* the str spelled by a list of characters
RECURSIVE AtomOf(_)
AtomOf(t) == IF t = <<>> THEN "" ELSE t[1] \o AtomOf(Tail(t))

\* Component.filter
ComponentFilter(component, skeys) ==
    IF skeys = {} THEN component
    ELSE [component EXCEPT !.subcodes =
            SelectSeq(component.subcodes,
                      LAMBDA x : \/ AtomOf(x.val.tag) \in skeys
                                 \/ AtomOf(x.key) \in skeys
                                 \/ ComponentTypeGetItem(component.spec, x.val.tag).rename \in skeys)]

\* Chunk.filter
ChunkFilter(chunk, cnames, skeys) ==
    The({ [chunk EXCEPT !.components =
             [i \in 1..Len(kept) |->
                 The({ IF subs # {}
                       THEN [key |-> kept[i].key, val |-> ComponentFilter(kept[i].val, subs)]
                       ELSE kept[i] :
                       subs \in { {k \in skeys :
                                     \E spec \in {ComponentSpec(kept[i].val.spec)} :
                                        \/ \E j \in 1..Len(spec.singles) : AtomOf(spec.singles[j].key) = k
                                        \/ \E j \in 1..Len(spec.arrays) : AtomOf(spec.arrays[j].key) = k} } })]] :
          kept \in {IF cnames # {}
                    THEN SelectSeq(chunk.components, LAMBDA x : x.key \in cnames)
                    ELSE chunk.components} })

\* Code.filter: the keys that name a component kind select components, the others
\* subcodes; the scene and every set model slot are filtered
CodeFilter(code, keys) ==
    The({ [code EXCEPT
             !.scene = IF code.scene.isNone THEN code.scene
                       ELSE ChunkFilter(code.scene, component_names, keys \ component_names),
             !.models = [i \in 1..NumSlots |->
                            IF code.models[i].isNone THEN code.models[i]
                            ELSE ChunkFilter(code.models[i], component_names,
                                             keys \ component_names)]] :
          component_names \in { keys \cap ComponentNames } })

\* the first loop of Component.exclude, over the first n single kinds
RECURSIVE ExcludeSingles(_, _, _)
ExcludeSingles(subcodes, singles, n) ==
    IF n = 0 THEN subcodes
    ELSE The({ IF DictHas(done, singles[n].key) THEN done
               ELSE DictPut(done, singles[n].key,
                            SubcodeNew(singles[n].val.type, 0 - 1, singles[n].key)) :
               done \in {ExcludeSingles(subcodes, singles, n - 1)} })

\* the second loop of Component.exclude, over the first n array kinds: the key
\* tested and stored under is the formatted max_index, for every i; the Subcode
\* is made at the first i, which is 0
RECURSIVE ExcludeArrays(_, _, _)
ExcludeArrays(subcodes, arrays, n) ==
    IF n = 0 THEN subcodes
    ELSE The({ The({ IF DictHas(done, prefix) THEN done
                     ELSE DictPut(done, prefix, SubcodeNew(arrays[n].val.type, 0, arrays[n].key)) :
                     prefix \in {IF arrays[n].key \in singleDigits
                                 THEN Format(1, 9) ELSE Format(2, 99)} }) :
               done \in {ExcludeArrays(subcodes, arrays, n - 1)} })

\* Component.exclude
ComponentExclude(component) ==
    The({ [component EXCEPT !.subcodes =
             ExcludeArrays(ExcludeSingles(component.subcodes, spec.singles, Len(spec.singles)),
                           spec.arrays, Len(spec.arrays))] :
          spec \in {ComponentSpec(component.spec)} })

\* Chunk.exclude: the components the chunk has
ChunkExclude(chunk) ==
    [chunk EXCEPT !.components =
        [i \in 1..Len(chunk.components) |->
            [key |-> chunk.components[i].key, val |-> ComponentExclude(chunk.components[i].val)]]]

\* Code.exclude: the set model slots, not the scene
CodeExclude(code) ==
    [code EXCEPT !.models = [i \in 1..NumSlots |->
                                IF code.models[i].isNone THEN code.models[i]
                                ELSE ChunkExclude(code.models[i])]]

\* the triples of Code.fastloadList for one subcode: for a subcode of length 0 one
\* (prefix, i, '') for each field name; else the pieces, without the '' pieces
\* unless empties, numbered as they come
FastloadSubcode(sub, empties) ==
    IF SubcodeLen(sub) = 0
    THEN [i \in 1..Len(SubcodeTypes[sub.type].names) |->
             [prefix |-> getPrefix(sub), position |-> i - 1, value |-> <<>>]]
    ELSE The({ [i \in 1..Len(shown) |->
                  [prefix |-> getPrefix(sub), position |-> i - 1, value |-> shown[i]]] :
               shown \in {SelectSeq(sub.pieces, LAMBDA y : empties \/ y # <<>>)} })

\* the triples of the first n subcodes of a component
RECURSIVE FastloadComponent(_, _, _)
FastloadComponent(component, empties, n) ==
    IF n = 0 THEN <<>>
    ELSE FastloadComponent(component, empties, n - 1)
         \o FastloadSubcode(component.subcodes[n].val, empties)

\* the triples of the first n components of the model
RECURSIVE FastloadComponents(_, _, _)
FastloadComponents(model, empties, n) ==
    IF n = 0 THEN <<>>
    ELSE FastloadComponents(model, empties, n - 1)
         \o FastloadComponent(model.components[n].val, empties,
                              Len(model.components[n].val.subcodes))

\* Code.fastloadList; character counts from 0
fastloadList(code, character, empties) ==
    IF code.models[character + 1].isNone THEN <<>>
    ELSE FastloadComponents(code.models[character + 1], empties,
                            Len(code.models[character + 1].components))

----------------------------------------------------------------------------
(* The calls on one Code of values: a Code parsed from a text, then up to   *)
(* MaxOps calls of filter, exclude, fastloadList, clear on one of its       *)
(* subcodes, and Code(str(code)).  codes is the Code, pre the Code before   *)
(* the last call, hist the Codes before each call, op the call.             *)

MaxOps == 2

\* 68**aa1.2_hd3_jd1_je2, 68**jd1_u05_m003.4, 68**aa_hd.5_jd1..3,
\* 68***aa1*hd2#/]aa7 and 68***aa1*jd2_u05*hd4#/]hd1
ChunkTexts ==
    { <<"6", "8", "*", "*", "a", "a", "1", ".", "2", "_", "h", "d", "3", "_",
        "j", "d", "1", "_", "j", "e", "2">>,
      <<"6", "8", "*", "*", "j", "d", "1", "_", "u", "0", "5", "_",
        "m", "0", "0", "3", ".", "4">>,
      <<"6", "8", "*", "*", "a", "a", "_", "h", "d", ".", "5", "_",
        "j", "d", "1", ".", ".", "3">>,
      <<"6", "8", "*", "*", "*", "a", "a", "1", "*", "h", "d", "2",
        "#", "/", "]", "a", "a", "7">>,
      <<"6", "8", "*", "*", "*", "a", "a", "1", "*", "j", "d", "2", "_", "u", "0", "5",
        "*", "h", "d", "4", "#", "/", "]", "h", "d", "1">> }

\* the keys given to Code.filter: tags, a rename, a key with its index, names of
\* component kinds
KeySets ==
    { {"aa"}, {"leftshoe"}, {"u0"}, {"Clothing", "u"}, {"Expression"}, {"hd", "jd"}, {} }

Characters == {0, 1}

CodeCall(name) == [name |-> name, keys |-> {}, character |-> 0, empties |-> FALSE,
                   result |-> <<>>]

InitChunk ==
    /\ codes \in { CodeParse(t).code : t \in ChunkTexts }
    /\ pre = codes
    /\ op = CodeCall("init")
    /\ exc = ""
    /\ steps = 0
    /\ hist = <<>>
    /\ text = <<>>
    /\ heap = <<>>
    /\ mixer = <<>>

CodeCalled(call, code, e) ==
    /\ steps < MaxOps
    /\ op' = call
    /\ codes' = code
    /\ exc' = e
    /\ pre' = codes
    /\ hist' = Append(hist, [name |-> call.name, before |-> codes])
    /\ steps' = steps + 1
    /\ UNCHANGED <<heap, mixer>>

\* code.filter(keys)
Filter ==
    \E keys \in KeySets :
        \E r \in {CodeFilter(codes, keys)} :
            /\ CodeCalled([CodeCall("filter") EXCEPT !.keys = keys], r, "")
            /\ UNCHANGED text

\* code.exclude()
Exclude ==
    \E r \in {CodeExclude(codes)} :
        /\ CodeCalled(CodeCall("exclude"), r, "")
        /\ UNCHANGED text

\* code.fastloadList(character, empties)
Fastload ==
    \E character \in Characters, empties \in BOOLEAN :
        \E r \in {fastloadList(codes, character, empties)} :
            /\ CodeCalled([CodeCall("fastloadList") EXCEPT !.character = character,
                               !.empties = empties, !.result = r], codes, "")
            /\ UNCHANGED text

\* clear() on one subcode of a model of the Code
Clear ==
    \E slot \in 1..NumSlots :
        /\ ~codes.models[slot].isNone
        /\ \E i \in 1..Len(codes.models[slot].components) :
              \E j \in 1..Len(codes.models[slot].components[i].val.subcodes) :
                  \E r \in {[codes EXCEPT !.models[slot].components[i].val.subcodes[j].val =
                                SubcodeClear(@)]} :
                      /\ CodeCalled([CodeCall("clear") EXCEPT !.character = slot - 1], r, "")
                      /\ UNCHANGED text

\* Code(str(code)): the Code is written and the text parsed into a new Code
Reparse ==
    \E written \in {CodeStr(codes)} :
        \E r \in {CodeParse(written)} :
            /\ CodeCalled(CodeCall("reparse"), IF r.exc = "" THEN r.code ELSE codes, r.exc)
            /\ text' = written

NextChunk == Filter \/ Exclude \/ Fastload \/ Clear \/ Reparse

SpecChunk == InitChunk /\ [][NextChunk]_vars

----------------------------------------------------------------------------
(* A Code c, its copy c2 and a third Code d, and the calls a program makes  *)
(* on c and on c2: merge, convertVer, filter, and a field set on a subcode. *)
(* hist holds the calls made so far and pre the Codes before the last.      *)

MaxEdits == 3

\* the texts c is parsed from
CopyTexts ==
    { \* 68**aa1.2
      <<"6", "8", "*", "*", "a", "a", "1", ".", "2">>,
      \* 68***aa1.2_hd1.2.3.4#/]aa7/#]as
      <<"6", "8", "*", "*", "*", "a", "a", "1", ".", "2", "_", "h", "d", "1", ".", "2", ".", "3", ".", "4",
        "#", "/", "]", "a", "a", "7", "/", "#", "]", "a", "s">> }

\* the texts d is parsed from
OtherTexts ==
    { \* 68**hd1.2.3.4
      <<"6", "8", "*", "*", "h", "d", "1", ".", "2", ".", "3", ".", "4">>,
      \* 83**aa3_jd1
      <<"8", "3", "*", "*", "a", "a", "3", "_", "j", "d", "1">> }

\* the Codes a call is made on
CopyNames == {"c", "c2"}

\* the keys given to Code.filter
CopyKeySets == { {"Pose"} }

\* the versions Code.convertVer is called with
CopyTargets == {83}

\* Code.filter on a Code of references: the instances are what they were
CodeFilterRefs(code, h, keys) ==
    The({ [version |-> code.version,
           models  |-> [i \in 1..NumSlots |-> MapChunk(kept.models[i], LAMBDA k, v : v.id)],
           scene   |-> MapChunk(kept.scene, LAMBDA k, v : v.id)] :
          kept \in {CodeFilter(
                      [version |-> code.version,
                       models  |-> [i \in 1..NumSlots |->
                                       MapChunk(code.models[i],
                                                LAMBDA k, v : [tag |-> h[v].tag, id |-> v])],
                       scene   |-> MapChunk(code.scene,
                                            LAMBDA k, v : [tag |-> h[v].tag, id |-> v])],
                      keys)} })

InitCopy ==
    /\ \E tc \in CopyTexts, td \in OtherTexts :
         \E c \in {AllocCode(CodeParse(tc).code, 0)}, d \in {AllocCode(CodeParse(td).code, 1)} :
            /\ codes = [x \in {"c", "d"} |-> IF x = "c" THEN c.code ELSE d.code]
            /\ heap = Extend(c.objs, d.objs)
            /\ pre = [heap |-> Extend(c.objs, d.objs),
                      codes |-> [x \in {"c", "d"} |-> IF x = "c" THEN c.code ELSE d.code]]
    /\ text = <<>>
    /\ hist = <<>>
    /\ op = Call("init", "", "", 0, NoId, NoId)
    /\ exc = ""
    /\ steps = 0
    /\ mixer = <<>>

\* c2 = c.copy()
Copy ==
    /\ op.name = "init"
    /\ \E r \in {CodeCopy(codes["c"], heap, 2)} :
          /\ codes' = [x \in {"c", "c2", "d"} |-> IF x = "c2" THEN r.code ELSE codes[x]]
          /\ heap' = r.heap
    /\ op' = Call("copy", "c", "", 0, NoId, NoId)
    /\ hist' = Append(hist, Call("copy", "c", "", 0, NoId, NoId))
    /\ pre' = [heap |-> heap, codes |-> codes]
    /\ UNCHANGED <<text, exc, steps, mixer>>

\* what every call on c or c2 does besides its effect on the Codes
Edited(call, e) ==
    /\ op.name # "init"
    /\ steps < MaxEdits
    /\ op' = call
    /\ hist' = Append(hist, call)
    /\ exc' = e
    /\ steps' = steps + 1
    /\ pre' = [heap |-> heap, codes |-> codes]
    /\ UNCHANGED <<text, mixer>>

\* codes[x].merge(codes[y])
EditMerge ==
    \E x \in CopyNames, y \in {"c", "c2", "d"} :
        /\ x # y
        /\ op.name # "init"
        /\ \E r \in {CodeMerge(codes[x], codes[y], heap, steps + 3)} :
              /\ codes' = [codes EXCEPT ![x] = r.code]
              /\ heap' = r.heap
              /\ Edited(Call("merge", x, y, 0, NoId, NoId), r.exc)

\* codes[x].convertVer(new)
EditConvertVer ==
    \E x \in CopyNames, new \in CopyTargets :
        /\ op.name # "init"
        /\ \E r \in {convertVer(codes[x], heap, new, steps + 3)} :
              /\ codes' = [codes EXCEPT ![x] = r.code]
              /\ heap' = r.heap
              /\ Edited(Call("convertVer", x, "", new, NoId, NoId), "")

\* codes[x].filter(keys)
EditFilter ==
    \E x \in CopyNames, keys \in CopyKeySets :
        /\ op.name # "init"
        /\ \E r \in {CodeFilterRefs(codes[x], heap, keys)} :
              /\ codes' = [codes EXCEPT ![x] = r]
              /\ UNCHANGED heap
              /\ Edited(Call("filter", x, "", 0, NoId, NoId), "")

\* A[0] = '9' for a subcode A of codes[x]
EditSet ==
    \E x \in CopyNames :
        /\ op.name # "init"
        /\ \E e \in Entries(codes[x]) :
              \E r \in {SubcodeSetIndex(heap[e[3]], 0, <<"9">>)} :
                  /\ heap' = [heap EXCEPT ![e[3]] = r.sub]
                  /\ UNCHANGED codes
                  /\ Edited(Call("set", x, "", 0, e[3], NoId), r.exc)

NextCopy == Copy \/ EditMerge \/ EditConvertVer \/ EditFilter \/ EditSet

SpecCopy == InitCopy /\ [][NextCopy]_vars

----------------------------------------------------------------------------
(* Properties of parsing and serialization, over SpecRoundTrip. *)

\* the subcode fields of a chunk: (component, key, pieces) for each of its subcodes
ChunkFields(chunk) ==
    UNION { { <<chunk.components[i].key, chunk.components[i].val.subcodes[j].key,
                chunk.components[i].val.subcodes[j].val.pieces>> :
              j \in 1..Len(chunk.components[i].val.subcodes) } :
            i \in 1..Len(chunk.components) }

\* the same version, the same populated slots and scene, the same subcode fields
SameStructure(c, d) ==
    /\ c.version = d.version
    /\ c.scene.isNone = d.scene.isNone
    /\ ChunkFields(c.scene) = ChunkFields(d.scene)
    /\ \A i \in 1..NumSlots :
          /\ c.models[i].isNone = d.models[i].isNone
          /\ ChunkFields(c.models[i]) = ChunkFields(d.models[i])

\* a parse of a text that Code.__str__ produced has just ended
Reparsed == op.name = "parse" /\ steps > 1

\* C1: the serialization of a parsed Code is accepted by Code.parse, and the Codes
\* of the second and of the third generation are structurally equal.
C1_SecondGenerationRoundTrip ==
    /\ Reparsed => exc = ""
    /\ Len(hist) >= 3 => SameStructure(hist[2], hist[3])

\* C2: parsing the serialization of Code.parse(t) yields a Code with the version,
\* the populated slots and scene, and the subcode contents of Code.parse(t).
C2_FirstGenerationRoundTrip ==
    (Reparsed /\ steps = 3) => (exc = "" /\ Len(hist) = 2 /\ SameStructure(hist[1], hist[2]))

\* the renders of the model slots: '0' for an unset slot
SlotRenders(code) ==
    [i \in 1..NumSlots |-> IF code.models[i].isNone THEN <<"0">> ELSE ChunkStr(code.models[i])]

\* C3: the serialization is the version and '**', then with a scene the scene marker,
\* the nine slot renders joined by '*', the scene delimiter and the scene render, and
\* without a scene the render of slot 0 alone, whatever the slots 1..8 hold.
C3_SerializeFormat ==
    op.name = "serialize" =>
        \E code \in {hist[Len(hist)]} :
            text = str(code.version) \o <<"*", "*">> \o
                   (IF ~code.scene.isNone
                    THEN <<"*">> \o Join(SlotRenders(code), <<"*">>) \o sceneDelim
                         \o ChunkStr(code.scene)
                    ELSE IF code.models[1].isNone THEN <<>>
                    ELSE ChunkStr(code.models[1]))

\* a Code with no scene and a chunk in slot 1 was serialized
C3_Witness ==
    /\ op.name = "serialize"
    /\ hist[Len(hist)].scene.isNone
    /\ ~hist[Len(hist)].models[2].isNone
    /\ hist[Len(hist)].models[2].components # <<>>

----------------------------------------------------------------------------
(* Properties of Code.merge, Subcode.merge and Code.convertVer, over Spec. *)

\* the Code under a name as the program sees it, now and before the last call
Now(x) == Deref(codes[x], heap)
Before(x) == Deref(pre.codes[x], pre.heap)

\* the instances a Code holds
Instances(code) == {e[3] : e \in Entries(code)}

\* before the last call the two Codes held no instance in common
Unshared == Instances(pre.codes["a"]) \cap Instances(pre.codes["b"]) = {}

Max(m, n) == IF m >= n THEN m ELSE n

\* C4: after a.merge(b) of Codes with different versions, a.version is the higher
\* of the two versions.
C4_MergeVersionIsMax ==
    (op.name = "merge" /\ exc = ""
        /\ pre.codes[op.self].version # pre.codes[op.other].version)
    => codes[op.self].version =
          Max(pre.codes[op.self].version, pre.codes[op.other].version)

C6_MergeEmptyIsIdentity ==
    op.name = "mergeEmpty" =>
        /\ exc = ""
        /\ codes = pre.codes
        /\ heap = pre.heap
        /\ Now(op.self) = Before(op.self)

\* an empty Code was merged into a Code with a scene, assets and a model chunk
C6_Witness ==
    /\ op.name = "mergeEmpty"
    /\ ~codes[op.self].scene.isNone
    /\ codes[op.self].scene.assets # <<>>
    /\ codes[op.self].models[1].components # <<>>
    /\ codes[op.self].models[3].isNone

\* the subcode is logically absent: no pieces, or a first piece ''
Absent(sub) == sub.pieces = <<>> \/ sub.pieces[1] = <<>>

\* C7: A.merge(B) in mode 'all', for a subcode A with fields and a subcode B of the
\* same kind with the pieces [''], leaves A absent, and A is written as its prefix
\* alone.
C7_MergeAbsence ==
    (op.name = "subcodeMerge"
        /\ ~Absent(pre.heap[op.into])
        /\ pre.heap[op.from].type = pre.heap[op.into].type
        /\ pre.heap[op.from].pieces = << <<>> >>)
    => /\ exc = ""
       /\ Absent(heap[op.into])
       /\ SubcodeStr(heap[op.into]) = getPrefix(heap[op.into])

\* a subcode of several fields was merged with a subcode of pieces ['']
C7_Witness ==
    /\ op.name = "subcodeMerge"
    /\ Len(pre.heap[op.into].pieces) > 1
    /\ ~Absent(pre.heap[op.into])
    /\ pre.heap[op.from].type = pre.heap[op.into].type
    /\ pre.heap[op.from].pieces = << <<>> >>
    /\ Len(heap[op.into].pieces) > 1

\* the last two calls were convertVer(83) on the same Code
ConvertedTwice ==
    /\ Len(hist) >= 2
    /\ \A i \in {Len(hist) - 1, Len(hist)} :
          hist[i].name = "convertVer" /\ hist[i].new = 83 /\ hist[i].self = op.self

\* C8: a second convertVer(83) leaves the Code, its version and all its subcode
\* fields, as the first left it.
C8_ConvertTwice ==
    ConvertedTwice => (codes = pre.codes /\ heap = pre.heap /\ Now(op.self) = Before(op.self))

\* convertVer(83) was called twice on a Code whose shoe the first call remapped
C8_Witness ==
    /\ ConvertedTwice
    /\ codes[op.self].version = 83
    /\ \E e \in Entries(codes[op.self]) :
          /\ e[2] = <<"j", "d">>
          /\ Len(heap[e[3]].pieces) = 7
          /\ heap[e[3]].pieces[5] = <<"1">>

ChunkKeys(chunk) ==
    UNION { {sc.key : sc \in Range(c.val.subcodes)} : c \in Range(chunk.components) }

\* C10: a convertVer from a version below 83 to 83 or more leaves a model chunk
\* with no Clothing component without one, and with the subcodes it had.
C10_ConvertLeavesUnclothed ==
    (op.name = "convertVer" /\ pre.codes[op.self].version < 83 /\ op.new >= 83)
    => \A i \in 1..NumSlots :
          (~pre.codes[op.self].models[i].isNone
              /\ ~DictHas(pre.codes[op.self].models[i].components, "Clothing"))
          => /\ ~DictHas(codes[op.self].models[i].components, "Clothing")
             /\ ChunkKeys(codes[op.self].models[i]) = ChunkKeys(pre.codes[op.self].models[i])

----------------------------------------------------------------------------
(* Properties of MixerProgram.enumerate_codes, over SpecMixer. *)

Enumerated == op.name = "enumerate" /\ mixer.options # <<>>

\* the Source and the Code of a choice
SourceOf(pick) == mixer.options[pick.option].sources[pick.source]
CodeOf(pick) == SourceOf(pick).codes[pick.code]

\* the (source, code) positions an Option offers
PicksOf(option) ==
    UNION { { <<k, j>> : j \in 1..Len(option.sources[k].codes) } :
            k \in 1..Len(option.sources) }

\* the chains over the first n Options: one Source, and one of its Codes, per Option
RECURSIVE Chains(_, _)
Chains(options, n) ==
    IF n = 0 THEN { <<>> }
    ELSE { Append(c, Pick(n, kj[1], kj[2])) :
             c \in Chains(options, n - 1), kj \in PicksOf(options[n]) }

AllChains == Chains(mixer.options, Len(mixer.options))

\* no Source of the chain has a tag that another Source of the chain blacklists
BlacklistFree(chain) ==
    \A i \in 1..Len(chain), j \in 1..Len(chain) :
        i # j => SourceOf(chain[i]).tags \cap SourceOf(chain[j]).blacklist = {}

\* the whitelists of the chain are within its tags
WhitelistMet(chain) ==
    UNION { SourceOf(chain[i]).whitelist : i \in 1..Len(chain) }
        \subseteq UNION { SourceOf(chain[i]).tags : i \in 1..Len(chain) }

Surviving(chain) == BlacklistFree(chain) /\ WhitelistMet(chain)

\* the key of a chain: the names of its Sources joined with '_', under destdir
NameKey(chain) ==
    PathJoin(mixer.destdir,
             Join([i \in 1..Len(chain) |-> SourceOf(chain[i]).name], <<"_">>))

\* the key of a chain with the position of the Code after the name of a Source of
\* several Codes
SuffixKey(chain) ==
    PathJoin(mixer.destdir,
             Join([i \in 1..Len(chain) |->
                     SourceOf(chain[i]).name \o
                     (IF Len(SourceOf(chain[i]).codes) > 1
                      THEN str(chain[i].code - 1) ELSE <<>>)], <<"_">>))

Keys == { codes[i].key : i \in 1..Len(codes) }

\* C11: in every combination that enumerate_codes returns, the tags of each chosen
\* Source are disjoint from the blacklist of every other chosen Source.
C11_BlacklistSafety ==
    Enumerated => \A i \in 1..Len(codes) : BlacklistFree(codes[i].chain)

\* a program with a red Source in one Option and a Source that blacklists red in
\* another returned combinations
C11_Witness ==
    /\ Enumerated
    /\ exc = ""
    /\ codes # <<>>
    /\ Len(mixer.options) = 2
    /\ \E k \in 1..Len(mixer.options[1].sources) :
          "red" \in mixer.options[1].sources[k].tags
    /\ \E k \in 1..Len(mixer.options[2].sources) :
          "red" \in mixer.options[2].sources[k].blacklist

\* C12: a combination is returned only if the whitelists of its Sources are within
\* their tags, whichever Option declares the whitelist and the tag; and when the
\* enumeration returns, every chain that passes both tests has its entry.
C12_WhitelistChain ==
    Enumerated =>
        /\ \A i \in 1..Len(codes) : WhitelistMet(codes[i].chain)
        /\ exc = "" => \A chain \in AllChains : Surviving(chain) => SuffixKey(chain) \in Keys

\* a Source with a whitelist in the first Option was returned with a Source of the
\* second Option that has the tag
C12_Witness ==
    /\ Enumerated
    /\ exc = ""
    /\ \E i \in 1..Len(codes) :
          /\ Len(codes[i].chain) = 2
          /\ SourceOf(codes[i].chain[1]).whitelist # {}
          /\ SourceOf(codes[i].chain[1]).tags = {}
          /\ SourceOf(codes[i].chain[1]).whitelist \subseteq SourceOf(codes[i].chain[2]).tags

\* C13: enumerate_codes returns one entry for every surviving branch and no other,
\* keyed by destdir and the names of the Sources joined with '_'.
C13_Coverage ==
    Enumerated =>
        /\ exc = ""
        /\ Keys = { NameKey(chain) : chain \in {c \in AllChains : Surviving(c)} }
        /\ Len(codes) = Cardinality({c \in AllChains : Surviving(c)})

\* C14: with a Source of several Codes the enumeration returns, and each surviving
\* branch has an entry whose name has the position of the Code after the name of
\* that Source, at every Option.
C14_SuffixEverywhere ==
    (Enumerated /\ \E i \in 1..Len(mixer.options) :
                      \E k \in 1..Len(mixer.options[i].sources) :
                          Len(mixer.options[i].sources[k].codes) > 1)
    => /\ exc # "TypeError"
       /\ exc = "" => \A chain \in AllChains : Surviving(chain) => SuffixKey(chain) \in Keys

\* the subcodes of a Code of values: (slot, key, Subcode)
Subcodes(code) == Entries(code)

\* the positions in the chain of the Codes that have a subcode under (slot, key)
Suppliers(chain, slot, key) ==
    { i \in 1..Len(chain) : \E e \in Subcodes(CodeOf(chain[i])) : e[1] = slot /\ e[2] = key }

SubcodeAt(code, slot, key) ==
    (CHOOSE e \in Subcodes(code) : e[1] = slot /\ e[2] = key)[3]

MaxOf(S) == CHOOSE m \in S : \A n \in S : n <= m

\* the Code is the composition of the Codes of the chain: a subcode that the last
\* supplier has fully absent is absent; otherwise each field is the one of the
\* last Code that supplies the field
Composed(code, chain) ==
    \A slot \in 0..NumSlots :
        \A key \in { e[2] : e \in UNION { Subcodes(CodeOf(chain[i])) : i \in 1..Len(chain) } } :
            Suppliers(chain, slot, key) # {} =>
                /\ \E e \in Subcodes(code) : e[1] = slot /\ e[2] = key
                /\ IF SubcodeLen(SubcodeAt(CodeOf(chain[MaxOf(Suppliers(chain, slot, key))]),
                                           slot, key)) = 0
                   THEN SubcodeLen(SubcodeAt(code, slot, key)) = 0
                   ELSE \A q \in 1..7 :
                          \A having \in { {i \in Suppliers(chain, slot, key) :
                                             q <= Len(SubcodeAt(CodeOf(chain[i]), slot, key).pieces)} } :
                              having # {} =>
                                  /\ q <= Len(SubcodeAt(code, slot, key).pieces)
                                  /\ SubcodeAt(code, slot, key).pieces[q] =
                                        SubcodeAt(CodeOf(chain[MaxOf(having)]), slot, key).pieces[q]

\* C15: for a program whose Sources resolve to one Code at most, every surviving
\* chain has its Code, and the Code is the composition of the Codes of the chain.
C15_Composition ==
    (Enumerated /\ \A i \in 1..Len(mixer.options) :
                      \A k \in 1..Len(mixer.options[i].sources) :
                          Len(mixer.options[i].sources[k].codes) <= 1)
    => \A chain \in AllChains :
          Surviving(chain) =>
             \E i \in 1..Len(codes) :
                 codes[i].key = NameKey(chain) /\ Composed(codes[i].val, chain)

HasNoCode(source) == source.codes = <<>>

\* the program without its Sources of no Code
WithoutEmpty ==
    [mixer EXCEPT !.options =
        [i \in 1..Len(mixer.options) |->
            Option(SelectSeq(mixer.options[i].sources, LAMBDA source : ~HasNoCode(source)))]]

\* C16: a Source that resolves to no Code does not make enumerate_codes fail: when
\* every Option has a Source with a Code, the enumeration ends as it ends for the
\* program without the Sources of no Code, with the same entries; no combination
\* uses such a Source, and when the enumeration returns, the chains of the other
\* Sources have their entries.
C16_EmptySource ==
    Enumerated =>
        /\ (\A i \in 1..Len(mixer.options) : WithoutEmpty.options[i].sources # <<>>) =>
           \A d \in {enumerate_codes(WithoutEmpty)} :
              /\ exc = d.exc
              /\ [i \in 1..Len(codes) |-> <<codes[i].key, codes[i].val>>]
                    = [i \in 1..Len(d.total) |-> <<d.total[i].key, d.total[i].val>>]
        /\ \A i \in 1..Len(codes) :
              \A n \in 1..Len(codes[i].chain) : ~HasNoCode(SourceOf(codes[i].chain[n]))
        /\ exc = "" => \A chain \in AllChains : Surviving(chain) => SuffixKey(chain) \in Keys

----------------------------------------------------------------------------
(* Properties of the calls on a Subcode, over SpecSubcode. *)

FieldNames(sub) == SubcodeTypes[sub.type].names

IsFieldName(sub, key) == \E i \in 1..Len(FieldNames(sub)) : FieldNames(sub)[i] = key

\* the position (from 1) of a field name of the kind
FieldPosition(sub, key) == CHOOSE i \in 1..Len(FieldNames(sub)) : FieldNames(sub)[i] = key

\* C17: Subcode.__getitem__ does not raise and returns '0' for an integer below 0 or
\* from the number of pieces on, for a field name whose position is beyond the
\* pieces, and for a name that is no field name of the kind; for a field name
\* within the pieces it returns that field.
C17_GetDefault ==
    /\ op.name \in {"getitem", "getindex"} => exc = ""
    /\ op.name = "getindex" =>
          op.result = IF op.index < 0 \/ op.index >= Len(codes.pieces)
                      THEN <<"0">> ELSE codes.pieces[op.index + 1]
    /\ op.name = "getitem" =>
          op.result = IF IsFieldName(codes, op.key)
                         /\ FieldPosition(codes, op.key) <= Len(codes.pieces)
                      THEN codes.pieces[FieldPosition(codes, op.key)]
                      ELSE <<"0">>

\* the pieces after pieces[p] = value (p from 1), the list extended with '0'
PiecesWith(pieces, p, value) ==
    [k \in 1..Max(Len(pieces), p) |->
        IF k = p THEN value ELSE IF k <= Len(pieces) THEN pieces[k] ELSE <<"0">>]

\* C18: Subcode.__setitem__ and __setattr__ with a name that is no field name leave
\* the pieces as they were; with a field name, or an integer from 0 on, at
\* position p, pieces[p] is the string of the value, the other pieces are as
\* before, and the positions between the old end and p hold '0'.
C18_SetItem ==
    /\ op.name \in {"setitem", "setattr"} =>
          /\ exc = ""
          /\ codes.pieces = IF IsFieldName(pre, op.key)
                            THEN PiecesWith(pre.pieces, FieldPosition(pre, op.key), op.value)
                            ELSE pre.pieces
          /\ <<codes.type, codes.index, codes.tag>> = <<pre.type, pre.index, pre.tag>>
    /\ (op.name = "setindex" /\ op.index >= 0) =>
          /\ exc = ""
          /\ codes.pieces = PiecesWith(pre.pieces, op.index + 1, op.value)
          /\ <<codes.type, codes.index, codes.tag>> = <<pre.type, pre.index, pre.tag>>

\* a field was set two positions beyond the end of the pieces, from an int
C18_Witness ==
    /\ op.name = "setitem"
    /\ IsFieldName(pre, op.key)
    /\ FieldPosition(pre, op.key) > Len(pre.pieces) + 1
    /\ op.value = <<"1", "2">>
    /\ codes.pieces[Len(pre.pieces) + 1] = <<"0">>

\* the field at position i (from 1) is in a category the mode asks for
Requested(sub, i, mode) ==
    \/ mode = <<"all">>
    \/ /\ i <= Len(FieldNames(sub))
       /\ FieldNames(sub)[i] \in
            UNION { IF mode[k] = "color" THEN SubcodeTypes[sub.type].colors
                    ELSE IF mode[k] = "pose" THEN SubcodeTypes[sub.type].poses
                    ELSE IF mode[k] = "expr" THEN SubcodeTypes[sub.type].exprs
                    ELSE IF mode[k] = "clothes" THEN SubcodeTypes[sub.type].clothes
                    ELSE IF mode[k] = "body" THEN SubcodeTypes[sub.type].body
                    ELSE {} : k \in 1..Len(mode) }

\* C19: Subcode.merge(other, mode) of a Subcode of the same kind that is not fully
\* absent returns, and each field position of other is other's field in self when
\* the mode asks for it and as before otherwise, whatever the two lengths.
C19_MergeFields ==
    (op.name = "merge" /\ pre.type = op.other.type /\ SubcodeLen(op.other) # 0) =>
        /\ exc = ""
        /\ \A i \in 1..Len(op.other.pieces) :
              IF Requested(pre, i, op.mode)
              THEN i <= Len(codes.pieces) /\ codes.pieces[i] = op.other.pieces[i]
              ELSE IF i <= Len(pre.pieces)
                   THEN i <= Len(codes.pieces) /\ codes.pieces[i] = pre.pieces[i]
                   ELSE Len(codes.pieces) < i \/ codes.pieces[i] = <<"0">>

\* C20: Subcode.merge with a Subcode of another kind raises ValueError, in every
\* mode, and leaves self as it was.
C20_MergeTypeMismatch ==
    (op.name = "merge" /\ pre.type # op.other.type) =>
        exc = "ValueError" /\ codes = pre

\* a fully absent Subcode of another kind was merged in mode 'all'
C20_Witness ==
    /\ op.name = "merge"
    /\ pre.type # op.other.type
    /\ op.mode = <<"all">>
    /\ SubcodeLen(op.other) = 0
    /\ pre.pieces # <<>>
    /\ exc = "ValueError"

\* the two forms of a Subcode without field data: no piece, or a first piece ''
LogicallyAbsent(sub) == sub.pieces = <<>> \/ sub.pieces[1] = <<>>

\* C21: a Subcode with no piece and a Subcode whose first piece is '', with any
\* number of pieces, have length 0 and are written as their prefix alone.
C21_AbsentForms ==
    /\ (op.name = "len" /\ LogicallyAbsent(codes)) => op.index = 0
    /\ (op.name = "str" /\ LogicallyAbsent(codes)) => op.result = getPrefix(codes)

----------------------------------------------------------------------------
(* Properties of filter, exclude and fastloadList, over SpecChunk. *)

\* the chunks of a Code: the scene at 0, the models from 1
ChunkAt(code, k) == IF k = 0 THEN code.scene ELSE code.models[k]

\* the subcode matches the keys by its tag, by its key, or by the rename of its tag
\* in the component kind
MatchesKeys(cname, entry, skeys) ==
    \/ AtomOf(entry.val.tag) \in skeys
    \/ AtomOf(entry.key) \in skeys
    \/ \E spec \in {ComponentSpec(cname)} :
          \/ \E i \in 1..Len(spec.singles) :
                spec.singles[i].key = entry.val.tag /\ spec.singles[i].val.rename \in skeys
          \/ \E i \in 1..Len(spec.arrays) :
                spec.arrays[i].key = entry.val.tag /\ spec.arrays[i].val.rename \in skeys

\* C22: after filter, when names of component kinds are given only the components
\* named survive, and when subcode keys are given every subcode that remains in a
\* surviving component matches the keys by tag, key or rename, and the subcodes
\* that match remain.
C22_FilterKeeps ==
    op.name = "filter" =>
        \A k \in 0..NumSlots :
            ~ChunkAt(pre, k).isNone =>
                \E cnames \in {op.keys \cap ComponentNames}, skeys \in {op.keys \ ComponentNames},
                   was \in {ChunkAt(pre, k).components}, now \in {ChunkAt(codes, k).components} :
                    /\ {now[i].key : i \in 1..Len(now)} =
                          {was[i].key : i \in {j \in 1..Len(was) : cnames = {} \/ was[j].key \in cnames}}
                    /\ \A i \in 1..Len(now) :
                          \E before \in {DictGet(was, now[i].key).subcodes} :
                              {now[i].val.subcodes[j] : j \in 1..Len(now[i].val.subcodes)} =
                                  {before[j] : j \in {n \in 1..Len(before) :
                                       skeys = {} \/ MatchesKeys(now[i].key, before[n], skeys)}}

\* the indexes the subcodes of a tag use in a dict of subcodes
UsedIndexes(subcodes, tag) ==
    {subcodes[i].val.index : i \in {j \in 1..Len(subcodes) : subcodes[j].val.tag = tag}}

\* the first index from 0 that is not in the set
FirstUnused(used) == CHOOSE i \in 0..Cardinality(used) : i \notin used /\ \A j \in 0..(i - 1) : j \in used

\* a subcode without field data
Placeholder(sub) == \A i \in 1..Len(sub.pieces) : sub.pieces[i] = <<>>

\* C23: exclude adds to each component of a model, for each array kind of its
\* component kind, one empty subcode at the first index the kind does not use,
\* under the key of tag and index, and for each single kind it lacks one empty
\* subcode under the tag; the subcodes it had are as before.
C23_ExcludePlaceholders ==
    op.name = "exclude" =>
        \A k \in 1..NumSlots :
            ~pre.models[k].isNone =>
                \A c \in 1..Len(pre.models[k].components) :
                    \E was \in {pre.models[k].components[c].val.subcodes},
                       now \in {codes.models[k].components[c].val.subcodes},
                       spec \in {ComponentSpec(pre.models[k].components[c].key)} :
                        /\ \A i \in 1..Len(was) : i <= Len(now) /\ now[i] = was[i]
                        /\ \A a \in 1..Len(spec.arrays) :
                              \E i \in (Len(was) + 1)..Len(now) :
                                  /\ now[i].val.tag = spec.arrays[a].key
                                  /\ Placeholder(now[i].val)
                                  /\ now[i].val.index = FirstUnused(UsedIndexes(was, spec.arrays[a].key))
                                  /\ now[i].key = ComponentKey(now[i].val)
                                  /\ \A j \in (Len(was) + 1)..Len(now) :
                                        now[j].val.tag = spec.arrays[a].key => j = i
                        /\ \A g \in 1..Len(spec.singles) :
                              ~DictHas(was, spec.singles[g].key) =>
                                  /\ DictHas(now, spec.singles[g].key)
                                  /\ Placeholder(DictGet(now, spec.singles[g].key))
                        /\ Len(now) = Len(was) + Len(spec.arrays)
                              + Cardinality({g \in 1..Len(spec.singles) :
                                               ~DictHas(was, spec.singles[g].key)})

\* the subcodes of a model chunk, in the order of the components
ModelSubcodes(model) ==
    UNION { {model.components[i].val.subcodes[j].val :
                j \in 1..Len(model.components[i].val.subcodes)} :
            i \in 1..Len(model.components) }

\* the triples of the list that carry the prefix of the subcode
TriplesOf(list, sub) == SelectSeq(list, LAMBDA t : t.prefix = getPrefix(sub))

\* the subcodes of the model that fastloadList was called on
Loaded ==
    IF pre.models[op.character + 1].isNone THEN {}
    ELSE {sub \in ModelSubcodes(pre.models[op.character + 1]) :
            \A other \in ModelSubcodes(pre.models[op.character + 1]) :
                getPrefix(other) = getPrefix(sub) => other = sub}

\* C24: in the list of fastloadList a subcode without field data, in each of its
\* forms, has one placeholder triple for each field name of its kind when empties
\* is set and no triple when it is not.
C24_FastloadAbsent ==
    op.name = "fastloadList" =>
        \A sub \in Loaded :
            LogicallyAbsent(sub) =>
                TriplesOf(op.result, sub) =
                    IF op.empties
                    THEN [i \in 1..Len(SubcodeTypes[sub.type].names) |->
                             [prefix |-> getPrefix(sub), position |-> i - 1, value |-> <<>>]]
                    ELSE <<>>

\* C28: in every triple of fastloadList for a subcode with field data, the value
\* is the piece of the subcode at the position of the triple.
C28_FastloadPositions ==
    op.name = "fastloadList" =>
        \A sub \in Loaded :
            ~LogicallyAbsent(sub) =>
                \A i \in 1..Len(TriplesOf(op.result, sub)) :
                    \E t \in {TriplesOf(op.result, sub)[i]} :
                        /\ t.position < Len(sub.pieces)
                        /\ t.value = sub.pieces[t.position + 1]

----------------------------------------------------------------------------
(* Properties of unknown tags in parsing, over SpecRoundTrip. *)

\* the part of a Code text that follows the version and its '**'
TextRead(t) ==
    IF Len(Split(t, <<"*", "*">>)) = 1 THEN t ELSE Split(t, <<"*", "*">>)[2]

\* the chunk texts of a Code text: its model segments other than '0', and its scene
ChunkTextsRead(t) ==
    LET rest == TextRead(t)
        model_scene == Split(IF rest # <<>> /\ rest[1] = "*" THEN Tail(rest) ELSE rest,
                             sceneDelim)
    IN  (Range(Split(model_scene[1], <<"*">>)) \ { <<"0">> })
        \cup (IF Len(model_scene) > 1 THEN {model_scene[2]} ELSE {})

\* the subcode tokens of a Code text: at least a tag and one more character
TokensRead(t) ==
    UNION { {tok \in Range(Split(Split(c, assetDelim)[1], <<"_">>)) : Len(tok) >= 2} :
            c \in ChunkTextsRead(t) }

\* a token's tag is two characters, or one character followed by a decimal index
TagOfToken(tok) == IF isdigit(tok[2]) THEN <<tok[1]>> ELSE SubSeq(tok, 1, 2)

IndexReadable(tok) ==
    \/ ~isdigit(tok[2])
    \/ <<tok[1]>> \in singleDigits
    \/ Len(tok) = 2
    \/ isdigit(tok[3])

Unowned(tag) ==
    \A i \in 1..Len(ComponentTypes) :
        /\ \A j \in 1..Len(ComponentTypes[i].singles) : ComponentTypes[i].singles[j].key # tag
        /\ \A j \in 1..Len(ComponentTypes[i].arrays) : ComponentTypes[i].arrays[j].key # tag

HasUnownedToken(t) ==
    \E tok \in TokensRead(t) : IndexReadable(tok) /\ Unowned(TagOfToken(tok))

\* the text has no version, or one that int() reads
VersionReadable(t) ==
    Len(Split(t, <<"*", "*">>)) = 1 \/ int(Split(t, <<"*", "*">>)[1]).exc = ""

----------------------------------------------------------------------------
(* Properties of exclude and filter across serialization, over SpecChunk. *)

\* the last two calls were the named call and then Code(str(code))
ReparsedAfter(name) ==
    /\ Len(hist) >= 2
    /\ hist[Len(hist)].name = "reparse"
    /\ hist[Len(hist) - 1].name = name

\* the Code before the call that came before the last call
Earlier == hist[Len(hist) - 1].before

\* the subcodes of a chunk, each with the name of its component and its key
ChunkSubcodes(chunk) ==
    IF chunk.isNone THEN {}
    ELSE UNION { { [component |-> chunk.components[i].key,
                    key |-> chunk.components[i].val.subcodes[j].key,
                    sub |-> chunk.components[i].val.subcodes[j].val] :
                   j \in 1..Len(chunk.components[i].val.subcodes) } :
                 i \in 1..Len(chunk.components) }

\* C29: the Code parsed from the text written after exclude holds, for every
\* subcode that had field data before exclude, array subcodes at index 0 included,
\* the same field data; and a second exclude adds no subcode.
C29_ExcludeKeepsData ==
    ReparsedAfter("exclude") =>
        /\ exc = ""
        /\ \A k \in 1..NumSlots :
              \A was \in ChunkSubcodes(Earlier.models[k]) :
                  ~LogicallyAbsent(was.sub) =>
                      \E now \in ChunkSubcodes(codes.models[k]) :
                          /\ now.component = was.component
                          /\ now.sub.tag = was.sub.tag
                          /\ now.sub.index = was.sub.index
                          /\ now.sub.pieces = was.sub.pieces
        /\ CodeExclude(pre) = pre

\* C30: for a Code with a scene, the text written after filter parses, and the
\* Code parsed has in the scene and in every model slot the subcodes of the
\* filtered Code, also when a model chunk was left without components.
C30_FilterRoundTrip ==
    (ReparsedAfter("filter") /\ ~pre.scene.isNone) =>
        /\ exc = ""
        /\ \A k \in 0..NumSlots :
              ChunkSubcodes(ChunkAt(codes, k)) = ChunkSubcodes(ChunkAt(pre, k))

----------------------------------------------------------------------------
(* Properties of the independence of merged Codes, over Spec. *)

\* the calls that change the Code they are made on, or one of its subcodes
Mutations == {"convertVer", "mergeEmpty", "subcodeMerge"}

\* C27: after a.merge(b) has returned, a call that changes a - a change of the
\* fields of one of a's subcodes, a merge of another Code into a, a.convertVer -
\* leaves the version, chunks and subcode fields of b as they were.
C27_MergedStayIndependent ==
    [][(op.name = "merge" /\ exc = "" /\ op'.name \in Mutations /\ op'.self = op.self)
          => Deref(codes'[op.other], heap') = Deref(codes[op.other], heap)]_vars

----------------------------------------------------------------------------
(* Properties of Code.copy, over SpecCopy. *)

\* the calls that change the Code they are made on
Edits == {"merge", "convertVer", "filter", "set"}

\* C26: c2 = c.copy() has the version, slots, scene, assets and subcode fields of
\* c and leaves c as it was; after it, a call of set, merge, filter or convertVer
\* made on c2 leaves c unchanged and one made on c leaves c2 unchanged.
C26_CopyIsDeep ==
    /\ op.name = "copy" =>
          /\ Deref(codes["c2"], heap) = Deref(pre.codes["c"], pre.heap)
          /\ Deref(codes["c"], heap) = Deref(pre.codes["c"], pre.heap)
    /\ (op.name \in Edits /\ op.self = "c2") =>
          Deref(codes["c"], heap) = Deref(pre.codes["c"], pre.heap)
    /\ (op.name \in Edits /\ op.self = "c") =>
          Deref(codes["c2"], heap) = Deref(pre.codes["c2"], pre.heap)

====
